---- MODULE Spec2Model ----
(***************************************************************************)
(* Model of the logsink issue-sink service: the issue lifecycle engine     *)
(* (LogService.updateLogState), the admission pipeline                     *)
(* (LogService.createLogEntry over the PostgreSQL LogRepository), the      *)
(* embedding worker (BackgroundProcessor over EmbeddingService) and the    *)
(* cleanup scheduler (CleanupService).                                     *)
(*                                                                         *)
(* Every `await` of a handler is a point where another handler may run,    *)
(* so a handler is a sequence of steps, one per store round trip; the      *)
(* code between two awaits is one atomic step (single-threaded event loop).*)
(* A handler's slot keeps its locals and, after it has answered, its       *)
(* response until the client has taken it.                                 *)
(***************************************************************************)
EXTENDS Integers, Sequences, FiniteSets, TLC

\* ---------------------------------------------------------------- bounds
MaxLifeIssues == 1  \* issue rows inserted in a behaviour of SpecLife
MaxWorkerIssues == 2 \* issue rows inserted in a behaviour of SpecWorker
MaxCleanupIssues == 2 \* issue rows inserted in a behaviour of SpecCleanup
MaxRaceIssues == 1  \* issue rows inserted in a behaviour of SpecRace
MaxDedupIssues == 3 \* issue rows inserted in a behaviour of SpecDedup
MaxReopen == 2      \* cap on exact-duplicate reopens of one issue
MaxFiles == 2       \* image files written in a behaviour
MaxImageIssues == 2 \* issue rows inserted in a behaviour of SpecImages
MaxCloseIssues == 2 \* issue rows inserted in a behaviour of SpecClose
MaxStoreIssues == 2 \* issue rows inserted in a behaviour of SpecStore
MaxBlacklistIssues == 2 \* issue rows inserted in a behaviour of SpecBlacklist
MaxByIdIssues == 2  \* issue rows inserted in a behaviour of SpecById
MaxInFlightIssues == 1 \* issue rows inserted in a behaviour of SpecInFlight
MaxCountIssues == 2 \* issue rows inserted in a behaviour of SpecCount
MaxSerialIssues == 1 \* issue rows inserted in a behaviour of SpecSerial
MaxReopenRaceIssues == 1 \* issue rows inserted in a behaviour of SpecReopenRace
MaxSurvivorIssues == 2 \* issue rows inserted in a behaviour of SpecSurvivor
MaxReconcileIssues == 3 \* issue rows inserted in a behaviour of SpecReconcile
MaxFlagIssues == 2   \* issue rows inserted in a behaviour of SpecFlags
MaxWriteFailIssues == 1 \* issue rows inserted in a behaviour of SpecWriteFail
MaxExpiryIssues == 2 \* issue rows inserted in a behaviour of SpecExpiry

\* ------------------------------------------------------ program constants
BatchLimit   == 20  \* getPendingEmbeddings(20)
SimilarLimit == 5   \* findSimilarLogs(embedding, application_id, 5, threshold)
ThresholdPercent == 85  \* config.embedding.similarityThreshold, 0.85
DuplicatePercent == 85  \* config.cleanup.duplicateThreshold, 0.85

\* ------------------------------------------------------- input universes
Apps        == {"A", "B"}
NoApp       == ""
Messages    == {<<"a">>, <<"a", "b">>}
NoMessage   == <<>>
CtxMessages == {<<>>, <<"b">>}      \* context.message: absent or "b"
Timestamps  == {1, 2}
UnknownId   == 0                    \* an id no row ever has
NullEmbedding == <<>>
Embeddings  == {<<1, 0>>, <<0, 1>>}
Patterns    == {<<"a">>, <<"b">>}
PatternTypes == {"exact", "substring"}

States      == {"pending", "open", "in_progress", "done", "revert", "closed"}
\* the states a route can request, plus "pending", which no case of the
\* switch in updateLogState handles
Requested   == {"in_progress", "done", "revert", "open", "closed", "pending"}

AdmitSlots  == {"a1", "a2"}         \* concurrently running POST /log handlers
LifeSlots   == {"l1", "l2"}         \* concurrently running lifecycle handlers
TickSlots   == {1, 2}         \* activations of processEmbeddings
ByIdSlots   == {3, 4}         \* POST /embedding/process/:logId handlers
RunSlots    == {1, 2}               \* activations of runCleanup
BlSlots     == {"b1"}               \* concurrently running blacklist route handlers

VARIABLES
    config,          \* config.embedding: enabled flag and API key presence
    logs,            \* table logs: id -> row, for the rows that exist
    nextId,          \* next fresh identifier (uuidv4 never repeats)
    duplicates,      \* table duplicates: set of <<original, duplicate>>
    adm,             \* per admission handler: position, locals, response
    life,            \* per lifecycle handler: position, locals, response
    isRunning,       \* BackgroundProcessor.isRunning
    processingQueue, \* BackgroundProcessor.processingQueue
    tick,            \* per processEmbeddings activation: position and locals
    force,           \* the response of POST /embedding/process, 0 when none is out
    cleanupRunning,  \* CleanupService.isRunning
    run,             \* per runCleanup activation: position and locals
    forceCleanup,    \* the response of POST /cleanup/run, 0 when none is out
    hist,            \* history per live issue: how it was created, how it left pending
    images,          \* the files of config.storage.imagesDir, by name
    nextFile,        \* next fresh file name (a name holds the admission's uuid)
    blacklist,       \* table blacklist: the stored patterns
    cache,           \* BlacklistService.cache: the patterns the matcher reads
    lastCacheUpdate, \* BlacklistService.lastCacheUpdate, 0 until a refresh completes
    bl,              \* per blacklist route handler: position, locals, response
    blconf,          \* config.blacklist: enabled and autoDelete
    exited           \* the process has called process.exit

imageVars == <<images, nextFile>>

blacklistVars == <<blacklist, cache, lastCacheUpdate, bl, blconf>>

vars == <<config, logs, nextId, duplicates, adm, life, isRunning,
          processingQueue, tick, force, cleanupRunning, run, forceCleanup, hist,
          images, nextFile, blacklist, cache, lastCacheUpdate, bl, blconf, exited>>

\* ------------------------------------------------------------ helpers
Live == DOMAIN logs

Insert(f, k, v) == [i \in DOMAIN f \cup {k} |-> IF i = k THEN v ELSE f[i]]

Remove(f, k) == [i \in DOMAIN f \ {k} |-> f[i]]

\* the edges left after row k is deleted (both foreign keys ON DELETE CASCADE)
Cascade(k) == {e \in duplicates : e[1] # k /\ e[2] # k}

Min(a, b) == IF a <= b THEN a ELSE b

\* the sequences that list every element of S once
Perms(S) == {s \in [1 .. Cardinality(S) -> S] :
               \A i, j \in 1 .. Cardinality(S) : i # j => s[i] # s[j]}

\* EmbeddingService.initialize sets isInitialized only with enabled and a key
isInitialized == config.enabled /\ config.apiKey

isAvailable == isInitialized /\ config.enabled

NoRow == [id |-> UnknownId, state |-> "none", reopen_count |-> 0]

Snapshot(i) == [id |-> i, state |-> logs[i].state, reopen_count |-> logs[i].reopen_count]

\* screenshots: the file names this admission has written; existingContext
\* and existingScreenshots: those of existingEntry as the probe returned it
IdleAdm == [pc |-> "idle", app |-> NoApp, msg |-> NoMessage, ctx |-> <<>>, ts |-> 0,
            screenshots |-> {}, existing |-> NoRow, existingContext |-> <<>>,
            existingScreenshots |-> {}, keyTwins |-> {}, twins |-> {},
            action |-> "none", logged |-> NoRow]

IdleLife == [pc |-> "idle", id |-> UnknownId, newState |-> "none",
             logState |-> "none", status |-> 0]

\* status is the response of POST /embedding/process/:logId, 0 when none is out;
\* errors is stats.errors, which only processEmbeddings writes
IdleTick == [pc |-> "idle", batch |-> <<>>, id |-> UnknownId, app |-> NoApp,
             embedding |-> NullEmbedding, target |-> UnknownId, status |-> 0,
             errors |-> 0]

IdleRun == [pc |-> "idle", apps |-> <<>>, plan |-> <<>>, keepCtx |-> <<>>,
            keepShots |-> {}, cutoff |-> 0, old |-> <<>>, imageFiles |-> {},
            referencedImages |-> {}]

\* a blacklist route handler: the pattern it adds or the message it tests
IdleBl == [pc |-> "idle", route |-> "none", pattern |-> NoMessage,
           patternType |-> "none", message |-> NoMessage, app |-> NoApp,
           status |-> 0, isBlacklisted |-> FALSE]

InitWith(blacklistConfig) ==
    /\ config \in {[enabled |-> FALSE, apiKey |-> FALSE],
                   [enabled |-> TRUE,  apiKey |-> FALSE],
                   [enabled |-> TRUE,  apiKey |-> TRUE]}
    /\ logs = <<>>
    /\ nextId = 1
    /\ duplicates = {}
    /\ adm = [p \in AdmitSlots |-> IdleAdm]
    /\ life = [l \in LifeSlots |-> IdleLife]
    /\ isRunning = FALSE
    /\ processingQueue = {}
    /\ tick = [t \in TickSlots \cup ByIdSlots |-> IdleTick]
    /\ force = 0
    /\ cleanupRunning = FALSE
    /\ run = [c \in RunSlots |-> IdleRun]
    /\ forceCleanup = 0
    /\ hist = <<>>
    /\ images = {}
    /\ nextFile = 1
    /\ blacklist = {}
    /\ cache = {}
    /\ lastCacheUpdate = 0
    /\ bl = [b \in BlSlots |-> IdleBl]
    /\ exited = FALSE
    /\ blconf = blacklistConfig

\* the defaults of config.blacklist: enabled, no autoDelete
Init == InitWith([enabled |-> TRUE, autoDelete |-> FALSE])

\* ------------------------------------------------------------ blacklist
\* message.includes(pattern), on lower-case letters
Contains(message, pattern) ==
    \E k \in 0 .. Len(message) - Len(pattern) :
        SubSeq(message, k + 1, k + Len(pattern)) = pattern

\* BlacklistService.matchesPattern; an unknown type matches as a substring
matchesPattern(message, pattern, patternType) ==
    CASE patternType = "exact"     -> message = pattern
      [] patternType = "substring" -> Contains(message, pattern)
      [] OTHER                     -> Contains(message, pattern)

\* what a caller gets from an async method that it does not await: a
\* promise of the value, not the value
Unawaited(value) == [kind |-> "promise", rows |-> value]

\* what `for (const x of v)` accepts
Iterable(v) == v.kind = "array"

\* BlacklistRepository.findAll, an async method, as refreshCache calls it
findAll(store) == Unawaited(store)

\* BlacklistService.refreshCache: entries = findAll(), cache.clear(), the
\* loop over entries, lastCacheUpdate = Date.now(); the loop throws on a
\* value that is not iterable, after the cache was cleared
refreshCache(store) ==
    IF Iterable(findAll(store))
    THEN [cache |-> findAll(store).rows, lastCacheUpdate |-> 1, thrown |-> FALSE]
    ELSE [cache |-> {}, lastCacheUpdate |-> lastCacheUpdate, thrown |-> TRUE]

\* BlacklistService.ensureCacheValid; expired: the timeout has passed since
\* lastCacheUpdate (always so while lastCacheUpdate is 0)
ensureCacheValid(expired) ==
    IF lastCacheUpdate = 0 \/ expired
    THEN refreshCache(blacklist)
    ELSE [cache |-> cache, lastCacheUpdate |-> lastCacheUpdate, thrown |-> FALSE]

\* isBlacklisted with a catch that blocks the message
isBlacklistedFailClosed(message, app, expired) ==
    IF ~blconf.enabled
    THEN [isBlacklisted |-> FALSE, cache |-> cache, lastCacheUpdate |-> lastCacheUpdate]
    ELSE LET v == ensureCacheValid(expired)
         IN  [isBlacklisted |->
                  \/ v.thrown
                  \/ \E e \in v.cache :
                        /\ e.app = NoApp \/ (app # NoApp /\ e.app = app)
                        /\ matchesPattern(message, e.pattern, e.patternType),
              cache |-> v.cache, lastCacheUpdate |-> v.lastCacheUpdate]

\* BlacklistService.isBlacklisted: global entries, then those of the
\* application; an error while checking lets the message through
isBlacklisted(message, app, expired) ==
    IF ~blconf.enabled
    THEN [isBlacklisted |-> FALSE, cache |-> cache, lastCacheUpdate |-> lastCacheUpdate]
    ELSE LET v == ensureCacheValid(expired)
         IN  [isBlacklisted |->
                  /\ ~v.thrown
                  /\ \E e \in v.cache :
                        /\ e.app = NoApp \/ (app # NoApp /\ e.app = app)
                        /\ matchesPattern(message, e.pattern, e.patternType),
              cache |-> v.cache, lastCacheUpdate |-> v.lastCacheUpdate]

\* BlacklistService.removeMatchingLogs: for a pattern of an application,
\* logs = logRepo.findByApplicationId(id) (async, not awaited) and the loop
\* that deletes each row whose message matches; nothing for a global pattern
removeMatchingLogs(pattern, patternType, app) ==
    LET listing == Unawaited({i \in Live : logs[i].application_id = app}) IN
    IF app = NoApp THEN [deleted |-> {}, thrown |-> FALSE]
    ELSE IF Iterable(listing)
    THEN [deleted |-> {i \in listing.rows :
                         matchesPattern(logs[i].message, pattern, patternType)},
          thrown |-> FALSE]
    ELSE [deleted |-> {}, thrown |-> TRUE]

\* BlacklistService.addPattern after the INSERT: the refresh, then with
\* autoDelete the removal of matching rows; an error of either is rethrown
addPattern(entry) ==
    LET r == refreshCache(blacklist \cup {entry})
        m == removeMatchingLogs(entry.pattern, entry.patternType, entry.app)
        removes == ~r.thrown /\ blconf.autoDelete
    IN  [cache |-> r.cache, lastCacheUpdate |-> r.lastCacheUpdate,
         deleted |-> IF removes THEN m.deleted ELSE {},
         thrown |-> r.thrown \/ (removes /\ m.thrown)]

\* POST /blacklist with a valid body: 409 on the unique key (pattern,
\* application_id), which a null application_id never violates; otherwise
\* the row is inserted and the answer is 201, or 500 if addPattern throws
BlAdd(b, pattern, patternType, app) ==
    LET entry == [pattern |-> pattern, patternType |-> patternType, app |-> app]
        exists == app # NoApp /\ \E e \in blacklist : e.pattern = pattern /\ e.app = app
        out == addPattern(entry)
        answer(status) == [IdleBl EXCEPT !.pc = "responded", !.route = "add",
                                         !.pattern = pattern, !.patternType = patternType,
                                         !.app = app, !.status = status]
    IN
    /\ bl[b].pc = "idle"
    /\ IF exists
       THEN /\ bl' = [bl EXCEPT ![b] = answer(409)]
            /\ UNCHANGED <<blacklist, cache, lastCacheUpdate, logs, hist, duplicates>>
       ELSE /\ blacklist' = blacklist \cup {entry}
            /\ cache' = out.cache
            /\ lastCacheUpdate' = out.lastCacheUpdate
            /\ logs' = [i \in Live \ out.deleted |-> logs[i]]
            /\ hist' = [i \in Live \ out.deleted |-> hist[i]]
            /\ duplicates' = {e \in duplicates :
                                e[1] \notin out.deleted /\ e[2] \notin out.deleted}
            /\ bl' = [bl EXCEPT ![b] = answer(IF out.thrown THEN 500 ELSE 201)]
    /\ UNCHANGED <<config, nextId, adm, life, isRunning, processingQueue, tick, force,
                   cleanupRunning, run, forceCleanup, imageVars, blconf, exited>>

\* POST /blacklist/test: the result of isBlacklisted, answered with 200
BlTest(b, message, app) ==
    /\ bl[b].pc = "idle"
    /\ \E expired \in BOOLEAN :
         LET r == isBlacklisted(message, app, expired)
         IN  /\ cache' = r.cache
             /\ lastCacheUpdate' = r.lastCacheUpdate
             /\ bl' = [bl EXCEPT ![b] =
                         [IdleBl EXCEPT !.pc = "responded", !.route = "test",
                                        !.message = message, !.app = app, !.status = 200,
                                        !.isBlacklisted = r.isBlacklisted]]
    /\ UNCHANGED <<config, logs, nextId, duplicates, adm, life, isRunning,
                   processingQueue, tick, force, cleanupRunning, run, forceCleanup,
                   hist, imageVars, blacklist, blconf, exited>>

\* the client has taken the response
BlDone(b) ==
    /\ bl[b].pc = "responded"
    /\ bl' = [bl EXCEPT ![b] = IdleBl]
    /\ UNCHANGED <<config, logs, nextId, duplicates, adm, life, isRunning,
                   processingQueue, tick, force, cleanupRunning, run, forceCleanup,
                   hist, imageVars, blacklist, cache, lastCacheUpdate, blconf, exited>>

\* ------------------------------------------------------------ admission
\* LogRepository.findDuplicateCandidate: the rows the query can return.
\* ORDER BY timestamp DESC LIMIT 1 returns one row of greatest timestamp;
\* among rows of equal timestamp the store may return any.
findDuplicateCandidate(app, msg, ctxMsg) ==
    LET combinedMessage == msg \o ctxMsg
        rows == {i \in Live : /\ logs[i].application_id = app
                              /\ logs[i].message = combinedMessage
                              /\ logs[i].state \in {"done", "closed"}}
    IN  IF rows = {} THEN {UnknownId}
        ELSE {i \in rows : \A j \in rows : logs[j].timestamp <= logs[i].timestamp}

\* the branch of createLogEntry: existingEntry && existingEntry.state === 'done'
WillReopen(a) == a.existing.id # UnknownId /\ a.existing.state = "done"

Creating == {p \in AdmitSlots : adm[p].pc = "probed" /\ ~WillReopen(adm[p])}

Reopening(i) == {p \in AdmitSlots : /\ adm[p].pc = "probed" /\ WillReopen(adm[p])
                                    /\ adm[p].existing.id = i}

\* the done issues whose (application_id, message) is that of the admission,
\* as the admission finds them
KeyTwins(app, msg) ==
    {Snapshot(i) : i \in {j \in Live : /\ logs[j].application_id = app
                                        /\ logs[j].message = msg
                                        /\ logs[j].state = "done"}}

\* those of them whose context is that of the admission too
Twins(app, msg, ctxMsg) ==
    {Snapshot(i) : i \in {j \in Live : /\ logs[j].application_id = app
                                        /\ logs[j].message = msg
                                        /\ logs[j].context = ctxMsg
                                        /\ logs[j].state = "done"}}

\* createLogEntry with a missing field throws; POST /log answers 500
AdmitInvalid(p, app, msg) ==
    /\ adm[p].pc = "idle"
    /\ app = NoApp \/ msg = NoMessage
    /\ adm' = [adm EXCEPT ![p] = [IdleAdm EXCEPT !.pc = "responded", !.app = app,
                                                 !.msg = msg, !.action = "error_500"]]
    /\ UNCHANGED <<config, logs, nextId, duplicates, life, isRunning, processingQueue,
                   tick, force, cleanupRunning, run, forceCleanup, hist, imageVars, blacklistVars,
                   exited>>

\* LogService.replaceScreenshots: one file per image of the context, under
\* a name this admission alone uses
processScreenshots(n) == nextFile .. nextFile + n - 1

\* createLogEntry for a message the blacklist check lets through, up to and
\* including the duplicate probe: the images are written before the probe.
\* n is the number of images in the context; cap is the number of rows the
\* behaviour may insert
AdmitProbe(p, app, msg, ctxMsg, n, ts, cap) ==
    /\ adm[p].pc = "idle"
    /\ app # NoApp /\ msg # NoMessage
    /\ nextFile + n - 1 <= MaxFiles
    /\ \E expired \in BOOLEAN :
         LET b == isBlacklisted(msg, app, expired)
         IN  /\ ~b.isBlacklisted
             /\ cache' = b.cache
             /\ lastCacheUpdate' = b.lastCacheUpdate
    /\ images' = images \cup processScreenshots(n)
    /\ nextFile' = nextFile + n
    /\ \E e \in findDuplicateCandidate(app, msg, ctxMsg) :
         LET a == [IdleAdm EXCEPT !.pc = "probed", !.app = app, !.msg = msg,
                                  !.ctx = ctxMsg, !.ts = ts,
                                  !.screenshots = processScreenshots(n),
                                  !.existing = IF e = UnknownId THEN NoRow ELSE Snapshot(e),
                                  !.existingContext =
                                      IF e = UnknownId THEN <<>> ELSE logs[e].context,
                                  !.existingScreenshots =
                                      IF e = UnknownId THEN {} ELSE logs[e].screenshots,
                                  !.keyTwins = KeyTwins(app, msg),
                                  !.twins = Twins(app, msg, ctxMsg)]
         IN  /\ IF WillReopen(a)
                  THEN logs[e].reopen_count + Cardinality(Reopening(e)) < MaxReopen
                  ELSE nextId + Cardinality(Creating) <= cap
             /\ adm' = [adm EXCEPT ![p] = a]
    /\ UNCHANGED <<config, logs, nextId, duplicates, life, isRunning, processingQueue,
                   tick, force, cleanupRunning, run, forceCleanup, hist,
                   blacklist, bl, blconf, exited>>

\* createLogEntry for a message the blacklist check matches: the blocked
\* result, returned before any image is written; POST /log answers 403
AdmitBlocked(p, app, msg) ==
    /\ adm[p].pc = "idle"
    /\ app # NoApp /\ msg # NoMessage
    /\ \E expired \in BOOLEAN :
         LET b == isBlacklisted(msg, app, expired)
         IN  /\ b.isBlacklisted
             /\ cache' = b.cache
             /\ lastCacheUpdate' = b.lastCacheUpdate
    /\ adm' = [adm EXCEPT ![p] = [IdleAdm EXCEPT !.pc = "responded", !.app = app,
                                                 !.msg = msg, !.action = "blocked"]]
    /\ UNCHANGED <<config, logs, nextId, duplicates, life, isRunning, processingQueue,
                   tick, force, cleanupRunning, run, forceCleanup, hist, imageVars,
                   blacklist, bl, blconf, exited>>

\* the spread in the other order: the keys of the first object win
MergeContextFirstWins(base, over) == IF base # <<>> THEN base ELSE over

\* mergedContext = { ...existingEntry.context, ...processedContext }
MergeContext(base, over) == IF over # <<>> THEN over ELSE base

\* the reopen UPDATE without reopen_count = reopen_count + 1
reopenExistingUncounted(row, ts, ctx, shots) ==
    [row EXCEPT !.state = "open", !.timestamp = ts, !.context = ctx,
                !.screenshots = shots]

\* LogRepository.reopenExisting: UPDATE ... WHERE id = $4, no test of the state
reopenExisting(row, ts, ctx, shots) ==
    [row EXCEPT !.state = "open", !.timestamp = ts, !.context = ctx,
                !.screenshots = shots, !.reopen_count = row.reopen_count + 1]

\* every new issue starting in open, whatever the embedding mode
initialStateOpen == "open"

\* const initialState = config.embedding.enabled ? 'pending' : 'open'
initialState == IF config.enabled THEN "pending" ELSE "open"

NewRow(app, msg, ctxMsg, ts, shots) ==
    [application_id |-> app, message |-> msg, context |-> ctxMsg, timestamp |-> ts,
     state |-> initialState, reopen_count |-> 0, embedding |-> NullEmbedding,
     screenshots |-> shots]

\* the reopen branch: mergedContext and mergedScreenshots are built from
\* existingEntry, the row as the probe returned it
AdmitReopen(p) ==
    LET a == adm[p]
        i == a.existing.id
    IN
    /\ a.pc = "probed"
    /\ WillReopen(a)
    /\ logs' = IF i \in Live
                 THEN [logs EXCEPT ![i] = reopenExisting(logs[i], a.ts,
                                             MergeContext(a.existingContext, a.ctx),
                                             a.existingScreenshots \cup a.screenshots)]
                 ELSE logs
    /\ adm' = [adm EXCEPT ![p].pc = "reopened"]
    /\ UNCHANGED <<config, nextId, duplicates, life, isRunning, processingQueue,
                   tick, force, cleanupRunning, run, forceCleanup, hist, imageVars, blacklistVars,
                   exited>>

\* resultEntry = findById(existingEntry.id), then the 200 response
AdmitReturn(p) ==
    LET a == adm[p]
        i == a.existing.id
    IN
    /\ a.pc = "reopened"
    /\ adm' = [adm EXCEPT ![p].pc = "responded",
                          ![p].action = "reopened_existing",
                          ![p].logged = IF i \in Live THEN Snapshot(i) ELSE NoRow]
    /\ UNCHANGED <<config, logs, nextId, duplicates, life, isRunning, processingQueue,
                   tick, force, cleanupRunning, run, forceCleanup, hist, imageVars, blacklistVars,
                   exited>>

\* the create branch: INSERT ... RETURNING *, then the 200 response
AdmitCreate(p) ==
    LET a == adm[p]
        row == NewRow(a.app, a.msg, a.ctx, a.ts, a.screenshots)
    IN
    /\ a.pc = "probed"
    /\ ~WillReopen(a)
    /\ logs' = Insert(logs, nextId, row)
    /\ hist' = Insert(hist, nextId, [created |-> initialState, left |-> "none"])
    /\ nextId' = nextId + 1
    /\ adm' = [adm EXCEPT ![p].pc = "responded",
                          ![p].action = "created_new",
                          ![p].logged = [id |-> nextId, state |-> row.state,
                                         reopen_count |-> 0]]
    /\ UNCHANGED <<config, duplicates, life, isRunning, processingQueue, tick,
                   force, cleanupRunning, run, forceCleanup, imageVars, blacklistVars, exited>>

\* the client has taken the response; the handler is gone
AdmitDone(p) ==
    /\ adm[p].pc = "responded"
    /\ adm' = [adm EXCEPT ![p] = IdleAdm]
    /\ UNCHANGED <<config, logs, nextId, duplicates, life, isRunning, processingQueue,
                   tick, force, cleanupRunning, run, forceCleanup, hist, imageVars, blacklistVars,
                   exited>>

\* ------------------------------------------------------------ lifecycle
\* the switch with the guard of case 'in_progress' testing for "not closed"
TransitionAllowedLoose(logState, newState) ==
    CASE newState = "in_progress" -> logState # "closed"
      [] newState = "done"        -> logState \in {"open", "in_progress"}
      [] newState = "revert"      -> logState = "done"
      [] newState = "open"        -> logState # "open"
      [] newState = "closed"      -> logState # "closed"
      [] OTHER                    -> FALSE

\* the guards of the switch in LogService.updateLogState
TransitionAllowed(logState, newState) ==
    CASE newState = "in_progress" -> logState \in {"open", "revert"}
      [] newState = "done"        -> logState \in {"open", "in_progress"}
      [] newState = "revert"      -> logState = "done"
      [] newState = "open"        -> logState # "open"
      [] newState = "closed"      -> logState # "closed"
      [] OTHER                    -> FALSE

\* what a lifecycle route answers when updateLogState reports no success,
\* for an issue that was found and for one that was not
FailureStatus(found) == 404

\* how an issue left pending, recorded when a write takes it out of pending
LeftPending(i, via) ==
    IF i \in Live /\ logs[i].state = "pending" /\ hist[i].left = "none"
    THEN [hist EXCEPT ![i].left = via]
    ELSE hist

\* deleteScreenshots unlinking every file that some issue names
deleteScreenshotsOfAll(screenshots) == images \ UNION {logs[i].screenshots : i \in Live}

\* LogService.deleteScreenshots: each named file that exists is unlinked
deleteScreenshots(screenshots) == images \ screenshots

\* updateLogState: log = findById(entryId), with the application check; case
\* 'closed' unlinks the screenshots of the row read before it issues the UPDATE
LifeRead(l, app, id, newState) ==
    LET found == id \in Live /\ logs[id].application_id = app IN
    /\ life[l].pc = "idle"
    /\ life' = [life EXCEPT ![l] =
                  [IdleLife EXCEPT !.pc = "read", !.id = id, !.newState = newState,
                     !.logState = IF found THEN logs[id].state ELSE "not_found"]]
    /\ images' = IF found /\ newState = "closed" /\ logs[id].state # "closed"
                   THEN deleteScreenshots(logs[id].screenshots)
                   ELSE images
    /\ UNCHANGED <<config, logs, nextId, duplicates, adm, isRunning, processingQueue,
                   tick, force, cleanupRunning, run, forceCleanup, hist, nextFile,
                   blacklistVars, exited>>

\* LogRepository.updateToInProgress: UPDATE logs SET state, started_at
updateToInProgress(row) == [row EXCEPT !.state = "in_progress"]

\* LogRepository.updateToDone: UPDATE logs SET state, llm_message, ...
updateToDone(row) == [row EXCEPT !.state = "done"]

\* the revert that counts as a reopen
updateToRevertCounted(row) ==
    [row EXCEPT !.state = "revert", !.reopen_count = row.reopen_count + 1]

\* LogRepository.updateToRevert: UPDATE logs SET state, revert_reason, reverted_at
updateToRevert(row) == [row EXCEPT !.state = "revert"]

\* the statement that the switch of updateLogState issues for newState
WriteState(row, newState) ==
    CASE newState = "in_progress" -> updateToInProgress(row)
      [] newState = "done"        -> updateToDone(row)
      [] newState = "revert"      -> updateToRevert(row)
      [] OTHER                    -> [row EXCEPT !.state = newState]

\* updateLogState after the read: not found, guard not met, or the UPDATE
\* (WHERE id = $n alone), and the route's response
LifeWrite(l) ==
    LET r == life[l]
        found == r.logState # "not_found"
        success == /\ found
                   /\ TransitionAllowed(r.logState, r.newState)
                   /\ r.id \in Live
    IN
    /\ r.pc = "read"
    /\ logs' = IF success THEN [logs EXCEPT ![r.id] = WriteState(logs[r.id], r.newState)]
                 ELSE logs
    /\ hist' = IF success THEN LeftPending(r.id, "lifecycle") ELSE hist
    /\ life' = [life EXCEPT ![l].pc = "responded",
                            ![l].status = IF success THEN 200 ELSE FailureStatus(found)]
    /\ UNCHANGED <<config, nextId, duplicates, adm, isRunning, processingQueue,
                   tick, force, cleanupRunning, run, forceCleanup, imageVars, blacklistVars,
                   exited>>

LifeDone(l) ==
    /\ life[l].pc = "responded"
    /\ life' = [life EXCEPT ![l] = IdleLife]
    /\ UNCHANGED <<config, logs, nextId, duplicates, adm, isRunning, processingQueue,
                   tick, force, cleanupRunning, run, forceCleanup, hist, imageVars, blacklistVars,
                   exited>>

\* ------------------------------------------------------ embedding worker
Dot(a, b) == a[1] * b[1] + a[2] * b[2]

\* 1 - (embedding <=> q) >= threshold: cosine similarity at least 0.85
Similar(q, e) ==
    /\ Dot(q, e) >= 0
    /\ 10000 * Dot(q, e) * Dot(q, e)
         >= ThresholdPercent * ThresholdPercent * Dot(q, q) * Dot(e, e)

\* ORDER BY embedding <=> q: a is not farther from q than b (for rows that
\* passed the threshold, whose dot product with q is not negative)
NotFarther(q, a, b) ==
    Dot(q, a) * Dot(q, a) * Dot(b, b) >= Dot(q, b) * Dot(q, b) * Dot(a, a)

\* EmbeddingService.findSimilarLogs: the result lists the query can return
findSimilarLogs(q, app, limit) ==
    LET rows == {i \in Live : /\ logs[i].application_id = app
                              /\ logs[i].embedding # NullEmbedding
                              /\ logs[i].state # "pending"
                              /\ Similar(q, logs[i].embedding)}
        ordered == {s \in Perms(rows) :
                      \A i, j \in 1 .. Len(s) :
                        i < j => NotFarther(q, logs[s[i]].embedding, logs[s[j]].embedding)}
    IN  {SubSeq(s, 1, Min(limit, Len(s))) : s \in ordered}

\* BackgroundProcessor.findBestMergeCandidate: the first row of the list in a
\* mergeable state (every listed row already has a score above the threshold)
findBestMergeCandidate(similarLogs) ==
    LET ok == {k \in 1 .. Len(similarLogs) :
                 logs[similarLogs[k]].state \in {"open", "in_progress", "done"}}
    IN  IF ok = {} THEN UnknownId
        ELSE similarLogs[CHOOSE k \in ok : \A m \in ok : k <= m]

\* EmbeddingService.getPendingEmbeddings: pending rows without an embedding,
\* oldest first (created_at is the insertion order, which is the id order)
RECURSIVE Ascending(_)
Ascending(S) ==
    IF S = {} THEN <<>>
    ELSE LET m == CHOOSE x \in S : \A y \in S : x <= y
         IN  <<m>> \o Ascending(S \ {m})

getPendingEmbeddings(limit) ==
    LET rows == Ascending({i \in Live : /\ logs[i].state = "pending"
                                        /\ logs[i].embedding = NullEmbedding})
    IN  [k \in 1 .. Min(limit, Len(rows)) |->
           [id |-> rows[k], application_id |-> logs[rows[k]].application_id]]

\* processEmbeddings runs on with the running flag unchecked
MayStartUnguarded == isAvailable

\* the guard at the head of processEmbeddings
MayStart == ~isRunning /\ isAvailable

\* processEmbeddings up to its first await: the flag is set and the stats of
\* the run are reset
StartTick(t) ==
    /\ tick[t].pc = "idle"
    /\ \A u \in TickSlots : tick[u].pc = "idle" => t <= u
    /\ isRunning' = TRUE
    /\ tick' = [tick EXCEPT ![t].pc = "fetch", ![t].errors = 0]

\* the cron callback; the job is scheduled only if config.embedding.enabled
TimerTick(t) ==
    /\ config.enabled
    /\ MayStart
    /\ StartTick(t)
    /\ UNCHANGED <<config, logs, nextId, duplicates, adm, life, processingQueue,
                   force, cleanupRunning, run, forceCleanup, hist, imageVars, blacklistVars,
                   exited>>

\* POST /embedding/process while the flag is set: 409
ForceBusy ==
    /\ force = 0
    /\ isRunning
    /\ force' = 409
    /\ UNCHANGED <<config, logs, nextId, duplicates, adm, life, isRunning,
                   processingQueue, tick, cleanupRunning, run, forceCleanup, hist, imageVars, blacklistVars,
                   exited>>

\* POST /embedding/process otherwise: forceProcessing() and 200
ForceProcess(t) ==
    /\ force = 0
    /\ ~isRunning
    /\ force' = 200
    /\ IF MayStart THEN StartTick(t) ELSE UNCHANGED <<isRunning, tick>>
    /\ UNCHANGED <<config, logs, nextId, duplicates, adm, life, processingQueue,
                   cleanupRunning, run, forceCleanup, hist, imageVars, blacklistVars, exited>>

\* the client has taken the response of POST /embedding/process
ForceDone ==
    /\ force # 0
    /\ force' = 0
    /\ UNCHANGED <<config, logs, nextId, duplicates, adm, life, isRunning,
                   processingQueue, tick, cleanupRunning, run, forceCleanup, hist, imageVars, blacklistVars,
                   exited>>

TickFetch(t) ==
    /\ tick[t].pc = "fetch"
    /\ tick' = [tick EXCEPT ![t].pc = "next", ![t].batch = getPendingEmbeddings(BatchLimit)]
    /\ UNCHANGED <<config, logs, nextId, duplicates, adm, life, isRunning,
                   processingQueue, force, cleanupRunning, run, forceCleanup, hist, imageVars, blacklistVars,
                   exited>>

\* the head of the for loop, and the end of the run after the last item
TickNext(t) ==
    /\ tick[t].pc = "next"
    /\ IF tick[t].batch = <<>>
       THEN /\ isRunning' = FALSE
            /\ tick' = [tick EXCEPT ![t] = [IdleTick EXCEPT !.errors = tick[t].errors]]
            /\ UNCHANGED processingQueue
       ELSE LET log == Head(tick[t].batch) IN
            IF log.id \in processingQueue
            THEN /\ tick' = [tick EXCEPT ![t].batch = Tail(tick[t].batch)]
                 /\ UNCHANGED <<isRunning, processingQueue>>
            ELSE /\ processingQueue' = processingQueue \cup {log.id}
                 /\ tick' = [tick EXCEPT ![t].pc = "embed", ![t].id = log.id,
                                         ![t].app = log.application_id,
                                         ![t].batch = Tail(tick[t].batch)]
                 /\ UNCHANGED isRunning
    /\ UNCHANGED <<config, logs, nextId, duplicates, adm, life, force,
                   cleanupRunning, run, forceCleanup, hist, imageVars, blacklistVars, exited>>

\* generateEmbedding: the provider answers with a vector, or the call throws
TickEmbed(t) ==
    /\ tick[t].pc = "embed"
    /\ \/ \E e \in Embeddings :
            tick' = [tick EXCEPT ![t].pc = "similar", ![t].embedding = e]
       \/ tick' = [tick EXCEPT ![t].pc = "fallback"]
    /\ UNCHANGED <<config, logs, nextId, duplicates, adm, life, isRunning,
                   processingQueue, force, cleanupRunning, run, forceCleanup, hist, imageVars, blacklistVars,
                   exited>>

TickSimilar(t) ==
    /\ tick[t].pc = "similar"
    /\ \E similarLogs \in findSimilarLogs(tick[t].embedding, tick[t].app, SimilarLimit) :
         LET c == findBestMergeCandidate(similarLogs) IN
         tick' = [tick EXCEPT ![t].pc = IF c # UnknownId THEN "merge" ELSE "save",
                              ![t].target = c]
    /\ UNCHANGED <<config, logs, nextId, duplicates, adm, life, isRunning,
                   processingQueue, force, cleanupRunning, run, forceCleanup, hist, imageVars, blacklistVars,
                   exited>>

\* processLogEmbedding has returned: the finally block of the loop body
\* (processEmbeddings), or the finally block and the 200 of the route
\* (processLogById)
FinishItem(t) ==
    /\ processingQueue' = processingQueue \ {tick[t].id}
    /\ tick' = IF t \in ByIdSlots
                 THEN [tick EXCEPT ![t] = [IdleTick EXCEPT !.pc = "responded",
                                                          !.status = 200]]
                 ELSE [tick EXCEPT ![t].pc = "next", ![t].id = UnknownId,
                                   ![t].app = NoApp, ![t].embedding = NullEmbedding,
                                   ![t].target = UnknownId]

\* The statements of the merge transaction, on the pair <<logs, duplicates>>.
\* UPDATE logs SET context, screenshots, reopen_count = reopen_count + 1
MergeUpdate(st, src, tgt) ==
    <<[st[1] EXCEPT
         ![tgt].context = MergeContext(st[1][tgt].context, st[1][src].context),
         ![tgt].screenshots = st[1][tgt].screenshots \cup st[1][src].screenshots,
         ![tgt].reopen_count = st[1][tgt].reopen_count + 1],
      st[2]>>

\* INSERT INTO duplicates (original_log_id, duplicate_log_id, ...)
MergeEdge(st, src, tgt) == <<st[1], st[2] \cup {<<tgt, src>>}>>

\* DELETE FROM logs WHERE id = source; the edges of the row go with it
MergeDelete(st, src) ==
    <<Remove(st[1], src), {e \in st[2] : e[1] # src /\ e[2] # src}>>

\* the writes of the transaction after its first k statements
RECURSIVE MergeWrites(_, _, _)
MergeWrites(k, src, tgt) ==
    CASE k = 0 -> <<logs, duplicates>>
      [] k = 1 -> MergeUpdate(MergeWrites(0, src, tgt), src, tgt)
      [] k = 2 -> MergeEdge(MergeWrites(1, src, tgt), src, tgt)
      [] OTHER -> MergeDelete(MergeWrites(2, src, tgt), src)

MergeStatements == 3

\* the store after a failed merge that had no transaction around it
RollbackLost(before, written) == written

\* ROLLBACK in the catch of mergeLogs: the writes of the transaction are gone
Rollback(before, written) == before

\* EmbeddingService.mergeLogs, one transaction. Both rows exist and COMMIT
\* succeeds: the target takes the source's context and screenshots and the
\* source is deleted. A row is missing, or a statement (or COMMIT) fails
\* after k statements: ROLLBACK, the result is false and processLogEmbedding
\* goes on to saveEmbedding
TickMerge(t) ==
    LET src == tick[t].id
        tgt == tick[t].target
    IN
    /\ tick[t].pc = "merge"
    /\ IF src \in Live /\ tgt \in Live
       THEN \/ /\ logs' = MergeWrites(MergeStatements, src, tgt)[1]
               /\ duplicates' = MergeWrites(MergeStatements, src, tgt)[2]
               /\ hist' = Remove(hist, src)
               /\ FinishItem(t)
            \/ /\ \E k \in 0 .. MergeStatements :
                    LET st == Rollback(<<logs, duplicates>>, MergeWrites(k, src, tgt)) IN
                    /\ logs' = st[1]
                    /\ duplicates' = st[2]
                    /\ hist' = [i \in DOMAIN st[1] |-> hist[i]]
               /\ tick' = [tick EXCEPT ![t].pc = "save"]
               /\ UNCHANGED processingQueue
       ELSE /\ tick' = [tick EXCEPT ![t].pc = "save"]
            /\ UNCHANGED <<logs, duplicates, hist, processingQueue>>
    /\ UNCHANGED <<config, nextId, adm, life, isRunning, force, cleanupRunning,
                   run, forceCleanup, imageVars, blacklistVars, exited>>

\* the row after saveEmbedding does not write the vector
saveEmbeddingLost(row, e) == row

\* EmbeddingService.saveEmbedding: UPDATE logs SET embedding ... WHERE id
saveEmbedding(row, e) == [row EXCEPT !.embedding = e]

TickSave(t) ==
    /\ tick[t].pc = "save"
    /\ logs' = IF tick[t].id \in Live
                 THEN [logs EXCEPT ![tick[t].id] = saveEmbedding(logs[tick[t].id], tick[t].embedding)]
                 ELSE logs
    /\ tick' = [tick EXCEPT ![t].pc = "promote"]
    /\ UNCHANGED <<config, nextId, duplicates, adm, life, isRunning, processingQueue,
                   force, cleanupRunning, run, forceCleanup, hist, imageVars, blacklistVars,
                   exited>>

\* EmbeddingService.updateLogState(id, 'open'): UPDATE logs SET state WHERE id
SetOpen(i) == IF i \in Live THEN [logs EXCEPT ![i].state = "open"] ELSE logs

TickPromote(t) ==
    /\ tick[t].pc = "promote"
    /\ logs' = SetOpen(tick[t].id)
    /\ hist' = LeftPending(tick[t].id, "embedding")
    /\ FinishItem(t)
    /\ UNCHANGED <<config, nextId, duplicates, adm, life, isRunning, force,
                   cleanupRunning, run, forceCleanup, imageVars, blacklistVars, exited>>

\* the catch of the loop body without stats.errors++
CountErrorNever(errors) == errors

\* stats.errors++ in the catch of the loop body
CountError(errors) == errors + 1

\* the catch of the loop body: the error is counted and the issue is moved to
\* open
TickFallback(t) ==
    /\ tick[t].pc = "fallback"
    /\ logs' = SetOpen(tick[t].id)
    /\ hist' = LeftPending(tick[t].id, "fallback")
    /\ processingQueue' = processingQueue \ {tick[t].id}
    /\ tick' = [tick EXCEPT ![t].pc = "next", ![t].id = UnknownId,
                            ![t].app = NoApp, ![t].embedding = NullEmbedding,
                            ![t].target = UnknownId,
                            ![t].errors = CountError(tick[t].errors)]
    /\ UNCHANGED <<config, nextId, duplicates, adm, life, isRunning, force,
                   cleanupRunning, run, forceCleanup, imageVars, blacklistVars, exited>>

\* ------------------------------------- POST /embedding/process/:logId
\* processLogById that never finds its id in the in-flight set
hasNever(logId) == FALSE

\* this.processingQueue.has(logId)
has(logId) == logId \in processingQueue

\* processLogById up to its first await: the two guards throw (the route
\* answers 500), otherwise the id joins the in-flight set
ByIdStart(r, logId) ==
    /\ tick[r].pc = "idle"
    /\ IF ~isAvailable \/ has(logId)
       THEN /\ tick' = [tick EXCEPT ![r] = [IdleTick EXCEPT !.pc = "responded",
                                                            !.id = logId,
                                                            !.status = 500]]
            /\ UNCHANGED processingQueue
       ELSE /\ processingQueue' = processingQueue \cup {logId}
            /\ tick' = [tick EXCEPT ![r].pc = "select", ![r].id = logId]
    /\ UNCHANGED <<config, logs, nextId, duplicates, adm, life, isRunning, force,
                   cleanupRunning, run, forceCleanup, hist, imageVars, blacklistVars, exited>>

\* SELECT ... WHERE id = $1 AND state = 'pending': no row throws, the finally
\* block takes the id out of the set and the route answers 500
ByIdSelect(r) ==
    LET logId == tick[r].id IN
    /\ tick[r].pc = "select"
    /\ IF logId \in Live /\ logs[logId].state = "pending"
       THEN /\ tick' = [tick EXCEPT ![r].pc = "embed",
                                    ![r].app = logs[logId].application_id]
            /\ UNCHANGED processingQueue
       ELSE /\ processingQueue' = processingQueue \ {logId}
            /\ tick' = [tick EXCEPT ![r] = [IdleTick EXCEPT !.pc = "responded",
                                                            !.status = 500]]
    /\ UNCHANGED <<config, logs, nextId, duplicates, adm, life, isRunning, force,
                   cleanupRunning, run, forceCleanup, hist, imageVars, blacklistVars, exited>>

\* processLogEmbedding threw: the finally block, then the 500 of the route;
\* the issue is not moved to open here
ByIdFail(r) ==
    /\ tick[r].pc = "fallback"
    /\ processingQueue' = processingQueue \ {tick[r].id}
    /\ tick' = [tick EXCEPT ![r] = [IdleTick EXCEPT !.pc = "responded", !.status = 500]]
    /\ UNCHANGED <<config, logs, nextId, duplicates, adm, life, isRunning, force,
                   cleanupRunning, run, forceCleanup, hist, imageVars, blacklistVars, exited>>

\* the client has taken the response of POST /embedding/process/:logId
ByIdDone(r) ==
    /\ tick[r].pc = "responded"
    /\ tick' = [tick EXCEPT ![r] = IdleTick]
    /\ UNCHANGED <<config, logs, nextId, duplicates, adm, life, isRunning,
                   processingQueue, force, cleanupRunning, run, forceCleanup, hist,
                   imageVars, blacklistVars, exited>>

\* the steps of processLogEmbedding, for a per-issue request
ByIdStep(r) ==
    \/ TickEmbed(r)
    \/ TickSimilar(r)
    \/ TickMerge(r)
    \/ TickSave(r)
    \/ TickPromote(r)

Worker(t) ==
    \/ TimerTick(t)
    \/ ForceProcess(t)
    \/ TickFetch(t)
    \/ TickNext(t)
    \/ TickEmbed(t)
    \/ TickSimilar(t)
    \/ TickMerge(t)
    \/ TickSave(t)
    \/ TickPromote(t)
    \/ TickFallback(t)

\* ------------------------------------------------------ cleanup scheduler
Max(a, b) == IF a >= b THEN a ELSE b

\* CleanupService.levenshteinDistance
RECURSIVE levenshteinDistance(_, _)
levenshteinDistance(str1, str2) ==
    IF Len(str1) = 0 THEN Len(str2)
    ELSE IF Len(str2) = 0 THEN Len(str1)
    ELSE LET a == SubSeq(str1, 1, Len(str1) - 1)
             b == SubSeq(str2, 1, Len(str2) - 1)
         IN  IF str1[Len(str1)] = str2[Len(str2)]
             THEN levenshteinDistance(a, b)
             ELSE 1 + Min(levenshteinDistance(a, b),
                          Min(levenshteinDistance(str1, b), levenshteinDistance(a, str2)))

\* calculateSimilarity without the provider: exact match, or
\* 1 - distance / maxLength at or above the duplicate threshold
SimpleDuplicate(m1, m2) ==
    \/ m1 = m2
    \/ 100 * (Max(Len(m1), Len(m2)) - levenshteinDistance(m1, m2))
          >= DuplicatePercent * Max(Len(m1), Len(m2))

\* GeminiService.isAvailable: a key is set (GEMINI_ENABLED defaults to true)
GeminiAvailable == config.apiKey

\* the pairs the provider may judge similar in one scan: any, when it is used
GeminiVerdicts(rows) ==
    IF GeminiAvailable THEN SUBSET {{i, j} : i, j \in rows} ELSE {{}}

\* LogRepository.findByApplicationId: the rows of the application, ORDER BY
\* timestamp DESC; rows of equal timestamp come in any order
findByApplicationId(app) ==
    LET rows == {i \in Live : logs[i].application_id = app}
    IN  {s \in Perms(rows) :
           \A i, j \in 1 .. Len(s) : i < j => logs[s[i]].timestamp >= logs[s[j]].timestamp}

\* the double loop of removeDuplicatesForApplication from position k on, the
\* pairs (i, j) taken row by row: for a similar pair the newer row is kept
RECURSIVE DuplicatePairs(_, _, _)
DuplicatePairs(listing, g, k) ==
    LET n == Len(listing)
        i == ((k - 1) \div n) + 1
        j == ((k - 1) % n) + 1
        log1 == listing[i]
        log2 == listing[j]
        newer == IF logs[log1].timestamp > logs[log2].timestamp THEN log1 ELSE log2
        older == IF logs[log1].timestamp > logs[log2].timestamp THEN log2 ELSE log1
    IN  IF k > n * n THEN <<>>
        ELSE (IF /\ i < j
                 /\ logs[log1].state # "closed"
                 /\ logs[log2].state # "closed"
                 /\ \/ SimpleDuplicate(logs[log1].message, logs[log2].message)
                    \/ {log1, log2} \in g
              THEN <<[keep |-> newer, dup |-> older, dupCtx |-> logs[older].context,
                      dupShots |-> logs[older].screenshots]>>
              ELSE <<>>) \o DuplicatePairs(listing, g, k + 1)

\* duplicateGroups in iteration order: the groups in the order their key was
\* first set, each group in the order its rows were pushed
RECURSIVE GroupOrder(_, _)
GroupOrder(pairs, todo) ==
    LET first(k) == CHOOSE m \in 1 .. Len(pairs) :
                      /\ pairs[m].keep = pairs[k].keep
                      /\ \A q \in 1 .. Len(pairs) : pairs[q].keep = pairs[k].keep => m <= q
        next == CHOOSE k \in todo :
                  \A q \in todo : \/ first(k) < first(q)
                                  \/ first(k) = first(q) /\ k <= q
    IN  IF todo = {} THEN <<>>
        ELSE <<pairs[next]>> \o GroupOrder(pairs, todo \ {next})

\* the merges removeDuplicatesForApplication will perform for a listing
MergePlan(listing, g) ==
    LET pairs == DuplicatePairs(listing, g, 1)
    IN  GroupOrder(pairs, 1 .. Len(pairs))

\* getApplicationsWithLogs: SELECT DISTINCT application_id, in any order
getApplicationsWithLogs == Perms({logs[i].application_id : i \in Live})

\* runCleanup runs on with the running flag unchecked
MayRunUnguarded == TRUE

\* the guard at the head of runCleanup
MayRun == ~cleanupRunning

\* runCleanup up to its first await
StartRun(c) ==
    /\ run[c].pc = "idle"
    /\ \A u \in RunSlots : run[u].pc = "idle" => c <= u
    /\ cleanupRunning' = TRUE
    /\ run' = [run EXCEPT ![c].pc = "apps"]

\* the cron callback (config.cleanup.enabled defaults to true)
CronRun(c) ==
    /\ MayRun
    /\ StartRun(c)
    /\ UNCHANGED <<config, logs, nextId, duplicates, adm, life, isRunning,
                   processingQueue, tick, force, forceCleanup, hist, imageVars, blacklistVars,
                   exited>>

\* POST /cleanup/run while the flag is set: 409
CleanupBusy ==
    /\ forceCleanup = 0
    /\ cleanupRunning
    /\ forceCleanup' = 409
    /\ UNCHANGED <<config, logs, nextId, duplicates, adm, life, isRunning,
                   processingQueue, tick, force, cleanupRunning, run, hist, imageVars, blacklistVars,
                   exited>>

\* POST /cleanup/run otherwise: forceCleanup() in the background and 200
CleanupForce(c) ==
    /\ forceCleanup = 0
    /\ ~cleanupRunning
    /\ forceCleanup' = 200
    /\ IF MayRun THEN StartRun(c) ELSE UNCHANGED <<cleanupRunning, run>>
    /\ UNCHANGED <<config, logs, nextId, duplicates, adm, life, isRunning,
                   processingQueue, tick, force, hist, imageVars, blacklistVars, exited>>

\* the client has taken the response of POST /cleanup/run
CleanupDone ==
    /\ forceCleanup # 0
    /\ forceCleanup' = 0
    /\ UNCHANGED <<config, logs, nextId, duplicates, adm, life, isRunning,
                   processingQueue, tick, force, cleanupRunning, run, hist, imageVars, blacklistVars,
                   exited>>

\* the cutoffs removeOldLogs can compute: Date.now() - maxAge against the
\* timestamps of the model
Cutoffs == {2}

\* removeDuplicates: the applications to scan
RunApps(c) ==
    /\ run[c].pc = "apps"
    /\ \E apps \in getApplicationsWithLogs :
         run' = [run EXCEPT ![c].pc = "scan", ![c].apps = apps]
    /\ UNCHANGED <<config, logs, nextId, duplicates, adm, life, isRunning,
                   processingQueue, tick, force, cleanupRunning, forceCleanup, hist, imageVars, blacklistVars,
                   exited>>

\* removeDuplicatesForApplication up to the merges: the listing and the
\* grouping; after the last application removeOldLogs computes its cutoff
RunScan(c) ==
    /\ run[c].pc = "scan"
    /\ IF run[c].apps = <<>>
       THEN \E cutoff \in Cutoffs :
              run' = [run EXCEPT ![c].pc = "apps2", ![c].cutoff = cutoff]
       ELSE \E listing \in findByApplicationId(Head(run[c].apps)) :
              \E g \in GeminiVerdicts({listing[k] : k \in 1 .. Len(listing)}) :
                run' = [run EXCEPT ![c].pc = "merge", ![c].apps = Tail(run[c].apps),
                                   ![c].plan = MergePlan(listing, g)]
    /\ UNCHANGED <<config, logs, nextId, duplicates, adm, life, isRunning,
                   processingQueue, tick, force, cleanupRunning, forceCleanup, hist, imageVars, blacklistVars,
                   exited>>

\* mergeDuplicateLog: keepLog = findById(keepId), return if there is none
RunMergeRead(c) ==
    /\ run[c].pc = "merge"
    /\ IF run[c].plan = <<>>
       THEN run' = [run EXCEPT ![c].pc = "scan"]
       ELSE LET keep == Head(run[c].plan).keep IN
            IF keep \in Live
            THEN run' = [run EXCEPT ![c].pc = "update", ![c].keepCtx = logs[keep].context,
                                    ![c].keepShots = logs[keep].screenshots]
            ELSE run' = [run EXCEPT ![c].plan = Tail(run[c].plan)]
    /\ UNCHANGED <<config, logs, nextId, duplicates, adm, life, isRunning,
                   processingQueue, tick, force, cleanupRunning, forceCleanup, hist, imageVars, blacklistVars,
                   exited>>

\* LogRepository.updateToOpen(id, context): UPDATE logs SET state = 'open',
\* context WHERE id; the method has two parameters, so the merged
\* screenshots that mergeDuplicateLog passes third reach no statement
updateToOpen(row, ctx, mergedScreenshots) == [row EXCEPT !.state = "open", !.context = ctx]

\* mergeDuplicateLog: the kept row takes the merged context and state open
RunMergeUpdate(c) ==
    LET p == Head(run[c].plan) IN
    /\ run[c].pc = "update"
    /\ logs' = IF p.keep \in Live
                 THEN [logs EXCEPT ![p.keep] =
                         updateToOpen(logs[p.keep], MergeContext(p.dupCtx, run[c].keepCtx),
                                      run[c].keepShots \cup p.dupShots)]
                 ELSE logs
    /\ hist' = LeftPending(p.keep, "cleanup")
    /\ run' = [run EXCEPT ![c].pc = "delete", ![c].keepCtx = <<>>, ![c].keepShots = {}]
    /\ UNCHANGED <<config, nextId, duplicates, adm, life, isRunning, processingQueue,
                   tick, force, cleanupRunning, forceCleanup, imageVars, blacklistVars, exited>>

\* the delete without the id in its WHERE clause: every row of the
\* application of row i goes
deleteByApplication(i) ==
    LET gone == {j \in Live : i \in Live /\ logs[j].application_id = logs[i].application_id}
    IN  /\ logs' = [j \in Live \ gone |-> logs[j]]
        /\ hist' = [j \in Live \ gone |-> hist[j]]
        /\ duplicates' = {e \in duplicates : e[1] \notin gone /\ e[2] \notin gone}

\* LogRepository.deleteById with the cascade on the duplicates table
deleteById(i) ==
    /\ logs' = IF i \in Live THEN Remove(logs, i) ELSE logs
    /\ hist' = IF i \in Live THEN Remove(hist, i) ELSE hist
    /\ duplicates' = Cascade(i)

\* mergeDuplicateLog: the duplicate row is deleted
RunMergeDelete(c) ==
    /\ run[c].pc = "delete"
    /\ deleteById(Head(run[c].plan).dup)
    /\ run' = [run EXCEPT ![c].pc = "merge", ![c].plan = Tail(run[c].plan)]
    /\ UNCHANGED <<config, nextId, adm, life, isRunning, processingQueue, tick,
                   force, cleanupRunning, forceCleanup, imageVars, blacklistVars, exited>>

\* removeOldLogs: the applications to scan
RunApps2(c) ==
    /\ run[c].pc = "apps2"
    /\ \E apps \in getApplicationsWithLogs :
         run' = [run EXCEPT ![c].pc = "oldscan", ![c].apps = apps]
    /\ UNCHANGED <<config, logs, nextId, duplicates, adm, life, isRunning,
                   processingQueue, tick, force, cleanupRunning, forceCleanup, hist, imageVars, blacklistVars,
                   exited>>

\* the rows of a listing that removeOldLogs deletes, in listing order
RECURSIVE OldRows(_, _)
OldRows(listing, cutoff) ==
    IF listing = <<>> THEN <<>>
    ELSE (IF logs[Head(listing)].state = "closed" /\ logs[Head(listing)].timestamp < cutoff
          THEN <<Head(listing)>> ELSE <<>>) \o OldRows(Tail(listing), cutoff)

\* removeOldLogs: the listing of the next application; after the last one
\* cleanupOrphanedImages lists the image directory (readdirSync)
RunOldScan(c) ==
    /\ run[c].pc = "oldscan"
    /\ IF run[c].apps = <<>>
       THEN run' = [run EXCEPT ![c].pc = "images", ![c].cutoff = 0,
                               ![c].imageFiles = images]
       ELSE \E listing \in findByApplicationId(Head(run[c].apps)) :
              run' = [run EXCEPT ![c].pc = "olddelete", ![c].apps = Tail(run[c].apps),
                                 ![c].old = OldRows(listing, run[c].cutoff)]
    /\ UNCHANGED <<config, logs, nextId, duplicates, adm, life, isRunning,
                   processingQueue, tick, force, cleanupRunning, forceCleanup, hist, imageVars, blacklistVars,
                   exited>>

\* removeOldLogs: deleteById for the next row found closed and old
RunOldDelete(c) ==
    /\ run[c].pc = "olddelete"
    /\ IF run[c].old = <<>>
       THEN /\ run' = [run EXCEPT ![c].pc = "oldscan"]
            /\ UNCHANGED <<logs, hist, duplicates>>
       ELSE /\ deleteById(Head(run[c].old))
            /\ run' = [run EXCEPT ![c].old = Tail(run[c].old)]
    /\ UNCHANGED <<config, nextId, adm, life, isRunning, processingQueue, tick,
                   force, cleanupRunning, forceCleanup, imageVars, blacklistVars, exited>>

\* runCleanup ending without its finally block: the flag stays as it is
RunEndFlagKept(c) ==
    /\ cleanupRunning' = cleanupRunning
    /\ run' = [run EXCEPT ![c] = IdleRun]

\* the finally block of runCleanup
RunEnd(c) ==
    /\ cleanupRunning' = FALSE
    /\ run' = [run EXCEPT ![c] = IdleRun]

\* the last loop of cleanupOrphanedImages: every listed file that is not in
\* the referenced set is unlinked
RemoveOrphans(imageFiles, referencedImages) == images \ (imageFiles \ referencedImages)

\* cleanupOrphanedImages: the applications whose rows are to be read; with
\* none, the files listed are removed at once
RunImages(c) ==
    /\ run[c].pc = "images"
    /\ \E apps \in getApplicationsWithLogs :
         IF apps = <<>>
         THEN /\ images' = RemoveOrphans(run[c].imageFiles, {})
              /\ RunEnd(c)
         ELSE /\ run' = [run EXCEPT ![c].pc = "imagescan", ![c].apps = apps,
                                    ![c].referencedImages = {}]
              /\ UNCHANGED <<images, cleanupRunning>>
    /\ UNCHANGED <<config, logs, nextId, duplicates, adm, life, isRunning,
                   processingQueue, tick, force, forceCleanup, hist, nextFile,
                   blacklistVars, exited>>

\* cleanupOrphanedImages: the screenshots of the next application's rows join
\* the referenced set; after the last application the orphans are removed
RunImageScan(c) ==
    LET app == Head(run[c].apps)
        referenced == run[c].referencedImages \cup
                        UNION {logs[i].screenshots : i \in {j \in Live : logs[j].application_id = app}}
    IN
    /\ run[c].pc = "imagescan"
    /\ IF Tail(run[c].apps) = <<>>
       THEN /\ images' = RemoveOrphans(run[c].imageFiles, referenced)
            /\ RunEnd(c)
       ELSE /\ run' = [run EXCEPT ![c].apps = Tail(run[c].apps),
                                  ![c].referencedImages = referenced]
            /\ UNCHANGED <<images, cleanupRunning>>
    /\ UNCHANGED <<config, logs, nextId, duplicates, adm, life, isRunning,
                   processingQueue, tick, force, forceCleanup, hist, nextFile,
                   blacklistVars, exited>>

Cleanup(c) ==
    \/ CronRun(c)
    \/ CleanupForce(c)
    \/ RunApps(c)
    \/ RunScan(c)
    \/ RunMergeRead(c)
    \/ RunMergeUpdate(c)
    \/ RunMergeDelete(c)
    \/ RunApps2(c)
    \/ RunOldScan(c)
    \/ RunOldDelete(c)
    \/ RunImages(c)
    \/ RunImageScan(c)

\* --------------------------------------------------- cleanup specification
\* no provider key is set: GeminiService and EmbeddingService are unavailable
InitNoKey == Init /\ ~config.apiKey

\* one application's issues under admission, close requests and cleanup runs
\* (no issue reaches done here, so the reopen branch of admission is left out)
NextCleanup ==
    \/ \E ts \in Timestamps :
         AdmitProbe("a1", "A", <<"a">>, <<>>, 0, ts, MaxCleanupIssues)
    \/ AdmitCreate("a1")
    \/ AdmitDone("a1")
    \/ \E id \in Live : LifeRead("l1", "A", id, "closed")
    \/ LifeWrite("l1")
    \/ LifeDone("l1")
    \/ CleanupBusy
    \/ CleanupDone
    \/ \E c \in RunSlots : Cleanup(c)

SpecCleanup == InitNoKey /\ [][NextCleanup]_vars

\* ---------------------------------------------------- worker specification
\* one application's issues under admission, the worker and forced reopen,
\* a lifecycle request the switch accepts on a pending issue; no issue reaches
\* done here, so the reopen branch of admission is left out
NextWorker ==
    \/ AdmitProbe("a1", "A", <<"a">>, <<>>, 0, 1, MaxWorkerIssues)
    \/ AdmitCreate("a1")
    \/ AdmitDone("a1")
    \/ \E id \in Live : LifeRead("l1", "A", id, "open")
    \/ LifeWrite("l1")
    \/ LifeDone("l1")
    \/ ForceBusy
    \/ ForceDone
    \/ \E t \in TickSlots : Worker(t)

SpecWorker == Init /\ [][NextWorker]_vars

\* the steps of a started tick: each is the return of an awaited call
TickStep(t) ==
    \/ TickFetch(t)
    \/ TickNext(t)
    \/ TickEmbed(t)
    \/ TickSimilar(t)
    \/ TickMerge(t)
    \/ TickSave(t)
    \/ TickPromote(t)
    \/ TickFallback(t)

\* the worker specification with the schedule of the code: the cron callback
\* keeps firing, and every awaited call of a started tick returns
SpecWorkerFair ==
    /\ SpecWorker
    /\ WF_vars(\E t \in TickSlots : TimerTick(t))
    /\ WF_vars(\E t \in TickSlots : TickStep(t))

\* ------------------------------------------- admission specifications
\* embedding mode off: new issues start in open
InitEmbeddingOff == Init /\ ~config.enabled

\* two admissions of one payload at a time, and the requests that take an
\* issue to done
NextRace ==
    \/ \E p \in AdmitSlots : AdmitProbe(p, "A", <<"a">>, <<>>, 0, 1, MaxRaceIssues)
    \/ \E p \in AdmitSlots : AdmitReopen(p)
    \/ \E p \in AdmitSlots : AdmitReturn(p)
    \/ \E p \in AdmitSlots : AdmitCreate(p)
    \/ \E p \in AdmitSlots : AdmitDone(p)
    \/ \E id \in 1 .. MaxRaceIssues : LifeRead("l1", "A", id, "done")
    \/ LifeWrite("l1")
    \/ LifeDone("l1")

SpecRace == InitEmbeddingOff /\ [][NextRace]_vars

\* one admission at a time with one message, with and without
\* context.message, and the requests that take an issue to done or closed
NextDedup ==
    \/ \E ctxMsg \in CtxMessages :
         AdmitProbe("a1", "A", <<"a">>, ctxMsg, 0, 1, MaxDedupIssues)
    \/ AdmitReopen("a1")
    \/ AdmitReturn("a1")
    \/ AdmitCreate("a1")
    \/ AdmitDone("a1")
    \/ \E id \in 1 .. MaxDedupIssues, s \in {"done", "closed"} :
         LifeRead("l1", "A", id, s)
    \/ LifeWrite("l1")
    \/ LifeDone("l1")

SpecDedup == InitEmbeddingOff /\ [][NextDedup]_vars

\* ------------------------------------------------ lifecycle specification
\* one application's issues under lifecycle requests of two applications
NextLife ==
    \/ \E app \in {"A", NoApp}, msg \in {<<"a">>, NoMessage} : AdmitInvalid("a1", app, msg)
    \/ AdmitProbe("a1", "A", <<"a">>, <<>>, 0, 1, MaxLifeIssues)
    \/ AdmitReopen("a1")
    \/ AdmitReturn("a1")
    \/ AdmitCreate("a1")
    \/ AdmitDone("a1")
    \/ \E app \in Apps, id \in 0 .. MaxLifeIssues, s \in Requested :
         LifeRead("l1", app, id, s)
    \/ LifeWrite("l1")
    \/ LifeDone("l1")

SpecLife == Init /\ [][NextLife]_vars

\* the transition table of the lifecycle engine, as rows <<from, to>>
TransitionTable ==
    {<<"open", "in_progress">>, <<"revert", "in_progress">>,
     <<"open", "done">>, <<"in_progress", "done">>, <<"done", "revert">>}
    \cup {<<s, "open">> : s \in States \ {"open"}}
    \cup {<<s, "closed">> : s \in States \ {"closed"}}

\* l answers in this step
Answers(l) == life[l].pc = "read" /\ life'[l].pc = "responded"

\* C1: a lifecycle request succeeds only if <<state the handler found the
\* issue in, requested state>> is a row of the transition table, and then the
\* issue is in the requested state; every other request is rejected and
\* leaves every row as it was.
C1_OnlyTableTransitions ==
    [][\A l \in LifeSlots :
         Answers(l) =>
           IF life'[l].status = 200
           THEN /\ <<life[l].logState, life[l].newState>> \in TransitionTable
                /\ logs'[life[l].id].state = life[l].newState
           ELSE /\ logs' = logs
                /\ \/ <<life[l].logState, life[l].newState>> \notin TransitionTable
                   \/ life[l].id \notin Live]_vars

\* a request done -> in_progress has been rejected and the issue is still done
C1_Witness ==
    /\ life["l1"].pc = "responded"
    /\ life["l1"].logState = "done" /\ life["l1"].newState = "in_progress"
    /\ life["l1"].status # 200
    /\ life["l1"].id \in Live /\ logs[life["l1"].id].state = "done"

\* p has applied the reopen UPDATE for the done issue it found
HasReopened(p) == adm[p].pc \in {"reopened", "responded"} /\ WillReopen(adm[p])

\* C2: of two admissions in flight that found the same issue in the same done
\* state, at most one has performed the reopen.
C2_OneWinsReopen ==
    \A p, q \in AdmitSlots :
      p # q /\ adm[p].existing = adm[q].existing =>
        ~(HasReopened(p) /\ HasReopened(q))

\* the activations of processEmbeddings that have started and not ended
ActiveTicks == {t \in TickSlots : tick[t].pc # "idle"}

\* C3: at most one worker tick is active at any time; while a tick is active
\* no trigger (timer or force-process) starts a second one, and a
\* force-process request that arrives then is answered 409 and changes
\* nothing but that response.
C3_SingleTick ==
    /\ [](Cardinality(ActiveTicks) <= 1 /\ (ActiveTicks # {} => isRunning))
    /\ [][ActiveTicks # {} =>
            /\ \A t \in TickSlots : tick[t].pc = "idle" => tick'[t].pc = "idle"
            /\ force = 0 /\ force' # 0 =>
                  /\ force' = 409
                  /\ UNCHANGED <<config, logs, nextId, duplicates, adm, life, isRunning,
                                 processingQueue, tick, cleanupRunning, run,
                                 forceCleanup, hist, imageVars, blacklistVars, exited>>]_vars

\* a force-process request has been answered 409 while a tick is at work on
\* an issue
C3_Witness ==
    /\ force = 409
    /\ \E t \in TickSlots : tick[t].pc = "similar" /\ tick[t].id \in Live
    /\ isRunning

\* the activations of runCleanup that have started and not ended
ActiveRuns == {c \in RunSlots : run[c].pc # "idle"}

\* C4: at most one cleanup run is active at any time; while a run is active
\* no trigger (cron or POST /cleanup/run) starts a second one, and a
\* POST /cleanup/run that arrives then is answered 409.
C4_SingleRun ==
    /\ [](Cardinality(ActiveRuns) <= 1 /\ (ActiveRuns # {} => cleanupRunning))
    /\ [][ActiveRuns # {} =>
            /\ \A c \in RunSlots : run[c].pc = "idle" => run'[c].pc = "idle"
            /\ forceCleanup = 0 /\ forceCleanup' # 0 =>
                  /\ forceCleanup' = 409
                  /\ UNCHANGED <<logs, duplicates, cleanupRunning, run>>]_vars

\* POST /cleanup/run has been answered 409 while a run is in the middle of a
\* merge
C4_Witness ==
    /\ forceCleanup = 409
    /\ \E c \in RunSlots : run[c].pc = "delete" /\ Head(run[c].plan).dup \in Live
    /\ cleanupRunning

\* C5: every issue that is pending eventually is not pending any more
\* (promoted, merged away or dropped to open), given that the timer keeps
\* firing and started ticks run on.
C5_PendingLeaves ==
    \A i \in 1 .. MaxWorkerIssues :
      (i \in Live /\ logs[i].state = "pending")
        ~> ~(i \in Live /\ logs[i].state = "pending")

\* C6: every issue whose state is pending has a null embedding.
C6_PendingHasNoEmbedding ==
    \A i \in Live : logs[i].state = "pending" => logs[i].embedding = NullEmbedding

C8_DoneTwinIsReopened ==
    \A p \in AdmitSlots :
      adm[p].pc = "responded" /\ adm[p].keyTwins # {} =>
        /\ adm[p].action = "reopened_existing"
        /\ \E t \in adm[p].keyTwins : adm[p].logged.id = t.id

\* C9: an admission whose payload is that of an issue in done answers with
\* that issue's id, in open, with reopen_count one above what it was.
C9_IdenticalPayloadReopens ==
    \A p \in AdmitSlots :
      adm[p].pc = "responded" /\ adm[p].twins # {} =>
        \E t \in adm[p].twins :
          /\ adm[p].logged.id = t.id
          /\ adm[p].logged.state = "open"
          /\ adm[p].logged.reopen_count = t.reopen_count + 1

\* C10: a lifecycle request on an issue that exists but is in the wrong state
\* is answered 400, a request on an unknown issue 404.
C10_WrongStateIs400 ==
    \A l \in LifeSlots :
      life[l].pc = "responded" /\ life[l].status # 200 =>
        IF life[l].logState = "not_found"
        THEN life[l].status = 404
        ELSE life[l].status = 400

\* t commits a merge in this step: both rows exist when mergeLogs runs
MergeCommits(t) ==
    /\ tick[t].pc = "merge"
    /\ tick[t].id \in Live /\ tick[t].target \in Live
    /\ tick'[t].pc \in {"next", "responded"}

\* C11: when the worker's merge of a pending issue into a neighbour has
\* committed, the duplicates table holds the edge <<neighbour, source>>.
C11_MergeLeavesEdge ==
    [][\A t \in TickSlots :
         MergeCommits(t) => <<tick[t].target, tick[t].id>> \in duplicates']_vars

\* ------------------------------------------------ screenshots and images
\* Admissions with and without an image for two applications, close
\* requests, and cleanup runs started by the schedule, with the embedding
\* feature off.
NextImages ==
    \/ \E app \in Apps, n \in 0 .. 1 :
         AdmitProbe("a1", app, <<"a">>, <<>>, n, 1, MaxImageIssues)
    \/ AdmitCreate("a1")
    \/ AdmitDone("a1")
    \/ \E id \in Live : LifeRead("l1", logs[id].application_id, id, "closed")
    \/ LifeWrite("l1")
    \/ LifeDone("l1")
    \/ CronRun(1)
    \/ RunApps(1)
    \/ RunScan(1)
    \/ RunMergeRead(1)
    \/ RunMergeUpdate(1)
    \/ RunMergeDelete(1)
    \/ RunApps2(1)
    \/ RunOldScan(1)
    \/ RunOldDelete(1)
    \/ RunImages(1)
    \/ RunImageScan(1)

SpecImages == InitEmbeddingOff /\ [][NextImages]_vars

\* c completes a near-duplicate merge in this step: the duplicate row is
\* deleted while the kept row exists
CleanupMergeCommits(c) ==
    /\ run[c].pc = "delete" /\ run'[c].pc = "merge"
    /\ Head(run[c].plan).dup \in Live /\ Head(run[c].plan).keep \in Live

\* C12: when a merge completes (the worker's merge of a pending issue into a
\* neighbour, or the cleanup run's merge of a near-duplicate into the newer
\* issue), the surviving issue's screenshots hold every file name that the
\* source and the target held just before.
C12_SurvivorOwnsUnion ==
    [][/\ \A t \in TickSlots :
            MergeCommits(t) =>
              logs[tick[t].id].screenshots \cup logs[tick[t].target].screenshots
                \subseteq logs'[tick[t].target].screenshots
       /\ \A c \in RunSlots :
            CleanupMergeCommits(c) =>
              LET p == Head(run[c].plan) IN
              logs[p.dup].screenshots \cup logs[p.keep].screenshots
                \subseteq logs'[p.keep].screenshots]_vars

\* c removes the orphans in this step: the last step of cleanupOrphanedImages
SweepRemoves(c) == run[c].pc \in {"images", "imagescan"} /\ run'[c].pc = "idle"

\* C13: no file that the orphan-image sweep deletes is, at the moment of the
\* deletion, named in the screenshots of a live issue.
C13_SweepSparesReferenced ==
    [][\A c \in RunSlots :
         SweepRemoves(c) =>
           \A f \in images \ images' : \A i \in Live : f \notin logs[i].screenshots]_vars

\* ------------------------------------------------------ close and images
\* Admissions with and without an image, and close and forced-reopen
\* requests, with the embedding feature off.
NextClose ==
    \/ \E n \in 0 .. 1 : AdmitProbe("a1", "A", <<"a">>, <<>>, n, 1, MaxCloseIssues)
    \/ AdmitCreate("a1")
    \/ AdmitDone("a1")
    \/ \E id \in Live, newState \in {"open", "closed"} : LifeRead("l1", "A", id, newState)
    \/ LifeWrite("l1")
    \/ LifeDone("l1")

SpecClose == InitEmbeddingOff /\ [][NextClose]_vars

\* l takes up a close request for issue i in this step and finds it not closed
Closes(l, i) ==
    /\ life[l].pc = "idle" /\ life'[l].pc = "read"
    /\ life'[l].newState = "closed" /\ life'[l].id = i
    /\ life'[l].logState \notin {"not_found", "closed"}

\* C14: a close request for an issue that is not closed removes from the
\* image directory the files named in that issue's screenshots and no other
\* file, in particular none named in the screenshots of another issue.
C14_CloseDeletesOwnFiles ==
    [][\A l \in LifeSlots : \A i \in Live :
         Closes(l, i) =>
           /\ images' = images \ logs[i].screenshots
           /\ \A j \in Live \ {i} : logs[j].screenshots \cap (images \ images') = {}]_vars

\* a close request has removed the file of its issue while the file of
\* another issue is in the directory
C14_Witness ==
    \E l \in LifeSlots : \E i, j \in Live :
        /\ i # j
        /\ life[l].pc = "read" /\ life[l].newState = "closed" /\ life[l].id = i
        /\ life[l].logState \notin {"not_found", "closed"}
        /\ logs[i].screenshots # {} /\ logs[i].screenshots \cap images = {}
        /\ logs[j].screenshots # {} /\ logs[j].screenshots \subseteq images

\* ------------------------------------------------- every writer of a row
\* One application's issues under admission, the worker's scheduled ticks
\* and the scheduled cleanup runs, with the embedding feature on and a
\* provider key.
InitKey == Init /\ config.enabled /\ config.apiKey

NextStore ==
    \/ AdmitProbe("a1", "A", <<"a">>, <<>>, 0, 1, MaxStoreIssues)
    \/ AdmitCreate("a1")
    \/ AdmitDone("a1")
    \/ TimerTick(1)
    \/ TickStep(1)
    \/ CronRun(1)
    \/ RunApps(1)
    \/ RunScan(1)
    \/ RunMergeRead(1)
    \/ RunMergeUpdate(1)
    \/ RunMergeDelete(1)
    \/ RunApps2(1)
    \/ RunOldScan(1)
    \/ RunOldDelete(1)
    \/ RunImages(1)
    \/ RunImageScan(1)

SpecStore == InitKey /\ [][NextStore]_vars

\* GET /log/:applicationId lists issue i exactly once, whatever order the
\* store returns
ListedOnce(i) ==
    /\ i \in Live
    /\ \A listing \in findByApplicationId(logs[i].application_id) :
         Cardinality({k \in 1 .. Len(listing) : listing[k] = i}) = 1

\* C15 as stated: an issue that POST /log has answered with created_new is in
\* every later listing of its application exactly once (the model has no
\* delete request, and every row was answered with created_new).
C15_CreatedStaysListed ==
    [][\A i \in Live : ListedOnce(i)']_vars

\* this step deletes issue i as the source of a worker merge, as the
\* duplicate of a cleanup merge, or as a closed issue past the maximum age
RemovedByMergeOrExpiry(i) ==
    \/ \E t \in TickSlots : MergeCommits(t) /\ tick[t].id = i
    \/ \E c \in RunSlots : /\ run[c].pc = "delete" /\ run'[c].pc = "merge"
                             /\ Head(run[c].plan).dup = i
    \/ \E c \in RunSlots : /\ run[c].pc = "olddelete" /\ run[c].old # <<>>
                             /\ run'[c].old = Tail(run[c].old)
                             /\ Head(run[c].old) = i
                             /\ logs[i].state = "closed"

\* C15 amended: an issue answered with created_new stays in the listing of
\* its application, exactly once, until a merge or the age expiry deletes it.
C15_ListedUntilMergedOrExpired ==
    [][\A i \in Live : ListedOnce(i)' \/ RemovedByMergeOrExpiry(i)]_vars

\* an answer created_new is out, the worker has processed the issue, and the
\* issue is listed once, after another issue has been merged away
C15_Witness ==
    \E p \in AdmitSlots :
        /\ adm[p].pc = "responded" /\ adm[p].action = "created_new"
        /\ ListedOnce(adm[p].logged.id)
        /\ Cardinality(Live) < nextId - 1

\* ------------------------------------------------------------ blacklist
\* Patterns added for one application or for all, messages tested, and
\* admissions with and without an image, with autoDelete on and the
\* embedding feature off.
InitAutoDelete ==
    InitWith([enabled |-> TRUE, autoDelete |-> TRUE]) /\ ~config.enabled

NextBlacklist ==
    \/ \E pattern \in Patterns, patternType \in PatternTypes, app \in {NoApp, "A"} :
         BlAdd("b1", pattern, patternType, app)
    \/ \E message \in Messages, app \in {NoApp, "A"} : BlTest("b1", message, app)
    \/ BlDone("b1")
    \/ \E message \in Messages, n \in 0 .. 1 :
         AdmitProbe("a1", "A", message, <<>>, n, 1, MaxBlacklistIssues)
    \/ AdmitCreate("a1")
    \/ AdmitDone("a1")

SpecBlacklist == InitAutoDelete /\ [][NextBlacklist]_vars

\* b completes POST /blacklist in this step with the pattern stored
Adds(b) ==
    /\ bl[b].pc = "idle" /\ bl'[b].pc = "responded" /\ bl'[b].route = "add"
    /\ [pattern |-> bl'[b].pattern, patternType |-> bl'[b].patternType,
        app |-> bl'[b].app] \in blacklist' \ blacklist

\* C19: with autoDelete on, when a pattern of an application has been added,
\* every issue of that application whose message matches the pattern is in
\* state closed.
C19_AutoDeleteCloses ==
    [][\A b \in BlSlots :
         (Adds(b) /\ blconf.autoDelete /\ bl'[b].app # NoApp) =>
           \A i \in Live :
             (/\ logs[i].application_id = bl'[b].app
              /\ matchesPattern(logs[i].message, bl'[b].pattern, bl'[b].patternType))
             => i \in Live' /\ logs'[i].state = "closed"]_vars

\* what the blacklist routes and admission can answer in this code: no
\* message is reported blacklisted, no admission is blocked, POST /blacklist
\* never answers 201, and the cache holds no pattern
BlacklistNeverMatches ==
    /\ cache = {} /\ lastCacheUpdate = 0
    /\ \A b \in BlSlots : ~bl[b].isBlacklisted /\ bl[b].status # 201
    /\ \A p \in AdmitSlots : adm[p].action # "blocked"

\* C20: a start-progress, set-done or revert request that succeeds puts the
\* issue in the requested state and leaves its reopen_count as it was, so the
\* sequence in-progress, done, revert, in-progress, done ends in done with
\* the reopen_count the issue started with.
C20_LifecycleKeepsReopenCount ==
    [][\A l \in LifeSlots :
         (/\ Answers(l) /\ life'[l].status = 200
          /\ life[l].newState \in {"in_progress", "done", "revert"})
         => /\ logs'[life[l].id].state = life[l].newState
            /\ logs'[life[l].id].reopen_count = logs[life[l].id].reopen_count]_vars

\* a revert request has succeeded on an issue that an exact duplicate had
\* reopened once, and the issue is in revert with reopen_count 1
C20_Witness ==
    \E l \in LifeSlots :
        /\ life[l].pc = "responded" /\ life[l].status = 200
        /\ life[l].logState = "done" /\ life[l].newState = "revert"
        /\ life[l].id \in Live
        /\ logs[life[l].id].state = "revert"
        /\ logs[life[l].id].reopen_count = 1

\* ------------------------------------------------------------------ C22
\* C22: an admission without applicationId or without message is answered
\* with the invalid-input outcome, 400, and not with 500, the outcome of a
\* persistence failure; and it inserts and changes no row.
C22_InvalidIs400 ==
    \A p \in AdmitSlots :
      /\ adm[p].pc = "responded"
      /\ adm[p].app = NoApp \/ adm[p].msg = NoMessage
      => adm[p].action = "invalid_400"

MergeReturns(t) == tick[t].pc = "merge" /\ tick'[t].pc # "merge"

\* C28: the embedding merge is all-or-nothing. When mergeLogs returns, either
\* the source is deleted and the target has the merged context, the
\* screenshots of both and reopen_count + 1, or no row and no edge has changed;
\* a merge that reports failure has changed nothing.
C28_MergeAllOrNothing ==
    [][\A t \in TickSlots \cup ByIdSlots :
         MergeReturns(t) =>
           LET src == tick[t].id
               tgt == tick[t].target
           IN  /\ \/ logs' = logs /\ duplicates' = duplicates
                  \/ /\ src \in Live /\ src \notin DOMAIN logs'
                     /\ tgt \in DOMAIN logs' =>
                          /\ logs'[tgt].reopen_count = logs[tgt].reopen_count + 1
                          /\ logs'[tgt].screenshots =
                                logs[tgt].screenshots \cup logs[src].screenshots
                          /\ logs'[tgt].context =
                                MergeContext(logs[tgt].context, logs[src].context)
               /\ tick'[t].pc = "save" => logs' = logs /\ duplicates' = duplicates]_vars

\* a merge of two existing rows has failed and the worker goes on to save
\* the embedding of the source
C28_Witness ==
    \E t \in TickSlots :
        /\ tick[t].pc = "save"
        /\ tick[t].target # UnknownId
        /\ tick[t].id \in Live /\ tick[t].target \in Live
        /\ logs[tick[t].id].state = "pending"

\* ------------------------------------------------------------------ C25
\* t performs one of the worker's writes on its item in this step: the merge
\* transaction, the promotion to open, or the drop to open after a failure
WorkerWrites(t) ==
    /\ tick[t].pc \in {"merge", "promote", "fallback"}
    /\ tick'[t].pc # tick[t].pc

\* C25: the worker promotes an issue, drops it to open or merges it away only
\* if the issue is still in pending when the write is made: an issue that has
\* left pending since the worker read it keeps its state and is not deleted.
C25_WorkerWritesOnlyPending ==
    [][\A t \in TickSlots :
         /\ WorkerWrites(t)
         /\ tick[t].id \in Live
         /\ logs[tick[t].id].state # "pending"
         => /\ tick[t].id \in DOMAIN logs'
            /\ logs'[tick[t].id].state = logs[tick[t].id].state]_vars

\* ---------------------------------------------- per-issue processing
\* One application's issues under admission, the scheduled ticks and
\* POST /embedding/process/:logId for known and unknown ids.
ById(cap) ==
    \/ AdmitProbe("a1", "A", <<"a">>, <<>>, 0, 1, cap)
    \/ AdmitCreate("a1")
    \/ AdmitDone("a1")
    \/ TimerTick(1)
    \/ TickStep(1)
    \/ \E r \in ByIdSlots, logId \in 0 .. cap : ByIdStart(r, logId)
    \/ \E r \in ByIdSlots : ByIdSelect(r)
    \/ \E r \in ByIdSlots : ByIdStep(r)
    \/ \E r \in ByIdSlots : ByIdFail(r)
    \/ \E r \in ByIdSlots : ByIdDone(r)

NextById == ById(MaxByIdIssues)

SpecById == Init /\ [][NextById]_vars

NextInFlight == ById(MaxInFlightIssues)

SpecInFlight == Init /\ [][NextInFlight]_vars

\* the activities that are processing an issue: between the add to the
\* in-flight set and the finally block that deletes from it
Busy == {t \in TickSlots \cup ByIdSlots :
           tick[t].pc \in {"select", "embed", "similar", "merge", "save",
                           "promote", "fallback"}}

\* C26: no issue id is being processed by two activities at once, and the
\* in-flight set holds exactly the ids that are being processed: it is empty
\* whenever nothing is being processed.
C26_InFlightExact ==
    /\ \A t, u \in Busy : t # u => tick[t].id # tick[u].id
    /\ processingQueue = {tick[t].id : t \in Busy}

\* a tick is processing an issue, and a per-issue request for an issue in
\* the in-flight set has been refused
C26_Witness ==
    /\ 1 \in Busy
    /\ processingQueue = {tick[1].id}
    /\ tick[1].pc = "embed"
    /\ \E r \in ByIdSlots :
          /\ tick[r].pc = "responded" /\ tick[r].status = 500
          /\ tick[r].id = tick[1].id

\* ------------------------------------------------------------------ C27
\* C27: every committed merge has a target different from its source, and
\* the target exists after the merge.
C27_MergeTargetSurvives ==
    [][\A t \in TickSlots \cup ByIdSlots :
         MergeCommits(t) =>
           /\ tick[t].target # tick[t].id
           /\ tick[t].target \in DOMAIN logs']_vars

\* ------------------------------------------------------------------ C21
\* One application's issues under admission of one payload, the requests
\* that take the first issue to done, and the scheduled worker, with the
\* embedding feature on and a provider key.
NextCount ==
    \/ AdmitProbe("a1", "A", <<"a">>, <<>>, 0, 1, MaxCountIssues)
    \/ AdmitReopen("a1")
    \/ AdmitReturn("a1")
    \/ AdmitCreate("a1")
    \/ AdmitDone("a1")
    \/ LifeRead("l1", "A", 1, "done")
    \/ LifeWrite("l1")
    \/ LifeDone("l1")
    \/ TimerTick(1)
    \/ TickStep(1)

SpecCount == InitKey /\ [][NextCount]_vars

\* p applies the reopen UPDATE to the existing issue i in this step
Reopens(p, i) ==
    /\ adm[p].pc = "probed" /\ adm'[p].pc = "reopened"
    /\ adm[p].existing.id = i

\* C21: reopen_count is never negative and never decreases while the issue
\* exists; an exact-duplicate reopen of the issue and a merge of another
\* issue into it each make it strictly larger.
C21_ReopenCountMonotone ==
    [][\A i \in DOMAIN logs \cap DOMAIN logs' :
         /\ logs'[i].reopen_count >= 0
         /\ logs'[i].reopen_count >= logs[i].reopen_count
         /\ (\E p \in AdmitSlots : Reopens(p, i))
              => logs'[i].reopen_count > logs[i].reopen_count
         /\ (\E t \in TickSlots : MergeCommits(t) /\ tick[t].target = i)
              => logs'[i].reopen_count > logs[i].reopen_count]_vars

\* the one issue left has taken a merge and has then been reopened by an
\* exact-duplicate admission
C21_Witness ==
    \E p \in AdmitSlots :
        /\ adm[p].pc = "reopened"
        /\ Live = {adm[p].existing.id}
        /\ nextId = 3
        /\ adm[p].existing.reopen_count = 1
        /\ logs[adm[p].existing.id].reopen_count = 2

\* ------------------------------------------------------------------ C24
\* One application's issues, created in open, under two lifecycle handlers
\* at a time that ask for in_progress or closed.
NextSerial ==
    \/ AdmitProbe("a1", "A", <<"a">>, <<>>, 0, 1, MaxSerialIssues)
    \/ AdmitCreate("a1")
    \/ AdmitDone("a1")
    \/ \E l \in LifeSlots, id \in 1 .. MaxSerialIssues, s \in {"in_progress", "closed"} :
         LifeRead(l, "A", id, s)
    \/ \E l \in LifeSlots : LifeWrite(l)
    \/ \E l \in LifeSlots : LifeDone(l)

SpecSerial == InitEmbeddingOff /\ [][NextSerial]_vars

\* l issues its UPDATE in this step and the route answers 200
Succeeds(l) ==
    /\ life[l].pc = "read" /\ life'[l].pc = "responded"
    /\ life'[l].status = 200

\* C24: the guard of a transition holds of the state that the transition
\* overwrites: a lifecycle request succeeds only if the issue exists and the
\* move from its stored state at the write to the requested state is in the
\* table, so a request that the write of a concurrent request has made
\* invalid does not succeed.
C24_GuardOnOverwrittenState ==
    [][\A l \in LifeSlots :
         Succeeds(l) =>
           /\ life[l].id \in Live
           /\ <<logs[life[l].id].state, life[l].newState>> \in TransitionTable]_vars

\* ------------------------------------------------------------------ C29
\* Two admissions of one payload at a time, with and without an image in the
\* context, and the requests that take an issue to done.
NextReopenRace ==
    \/ \E p \in AdmitSlots, n \in 0 .. 1 :
         AdmitProbe(p, "A", <<"a">>, <<>>, n, 1, MaxReopenRaceIssues)
    \/ \E p \in AdmitSlots : AdmitReopen(p)
    \/ \E p \in AdmitSlots : AdmitReturn(p)
    \/ \E p \in AdmitSlots : AdmitCreate(p)
    \/ \E p \in AdmitSlots : AdmitDone(p)
    \/ \E id \in 1 .. MaxReopenRaceIssues : LifeRead("l1", "A", id, "done")
    \/ LifeWrite("l1")
    \/ LifeDone("l1")

SpecReopenRace == InitEmbeddingOff /\ [][NextReopenRace]_vars

\* C29: when two admissions in flight have both applied their reopen to the
\* same issue, the issue's screenshots list names the images of both.
C29_BothContributionsKept ==
    \A p, q \in AdmitSlots :
      /\ p # q
      /\ HasReopened(p) /\ HasReopened(q)
      /\ adm[p].existing.id = adm[q].existing.id
      /\ adm[p].existing.id \in Live
      => adm[p].screenshots \cup adm[q].screenshots
           \subseteq logs[adm[p].existing.id].screenshots

\* ------------------------------------------------------------------ C30
\* C30: the orphan-image sweep deletes no file that an admission in progress
\* has written and whose issue row is not yet written.
C30_SweepSparesMidAdmission ==
    [][\A c \in RunSlots :
         SweepRemoves(c) =>
           \A p \in AdmitSlots :
             adm[p].pc = "probed" => adm[p].screenshots \cap (images \ images') = {}]_vars

\* ------------------------------------------------------------------ C31
\* C31: the cache that a reader finds is a complete pattern set: while the
\* store holds patterns the cache is not empty and holds no pattern that is
\* not in the store, also after a refresh that failed.
C31_CacheNeverTorn ==
    /\ cache \subseteq blacklist
    /\ blacklist # {} => cache # {}

\* ------------------------------------------------------------------ C32
\* this step is a write of mergeDuplicateLog: the update of the kept row or
\* the delete of the duplicate row
ReconcileWrites ==
    \E c \in RunSlots : run[c].pc \in {"update", "delete"} /\ run'[c] # run[c]

\* C32: a write of the near-duplicate reconciliation leaves every issue that
\* is closed or pending in the store as it is: it is neither modified nor
\* deleted.
C32_ReconcileSparesClosedAndPending ==
    [][ReconcileWrites =>
         \A i \in Live : logs[i].state \in {"closed", "pending"} =>
                            i \in DOMAIN logs' /\ logs'[i] = logs[i]]_vars

\* ------------------------------------------------------------------ C33
\* One application's issues of one message, created in open, under requests
\* for in_progress and the scheduled cleanup runs.
NextSurvivor ==
    \/ \E ts \in Timestamps :
         AdmitProbe("a1", "A", <<"a">>, <<>>, 0, ts, MaxSurvivorIssues)
    \/ AdmitCreate("a1")
    \/ AdmitDone("a1")
    \/ \E id \in 1 .. MaxSurvivorIssues : LifeRead("l1", "A", id, "in_progress")
    \/ LifeWrite("l1")
    \/ LifeDone("l1")
    \/ CronRun(1)
    \/ RunApps(1)
    \/ RunScan(1)
    \/ RunMergeRead(1)
    \/ RunMergeUpdate(1)
    \/ RunMergeDelete(1)
    \/ RunApps2(1)
    \/ RunOldScan(1)
    \/ RunOldDelete(1)
    \/ RunImages(1)
    \/ RunImageScan(1)

SpecSurvivor == InitEmbeddingOff /\ [][NextSurvivor]_vars

\* C33: the update of mergeDuplicateLog leaves the lifecycle state of the
\* surviving issue as it was: a survivor in in_progress, done or revert is in
\* the same state after the merge.
C33_SurvivorKeepsState ==
    [][\A c \in RunSlots :
         run[c].pc = "update" /\ run'[c].pc = "delete" =>
           LET keepId == Head(run[c].plan).keep IN
           keepId \in Live /\ logs[keepId].state \in {"in_progress", "done", "revert"} =>
             logs'[keepId].state = logs[keepId].state]_vars

\* ------------------------------------------------------------------ C34
\* One application's issues of one message, created in open with any
\* timestamp and context (context.message absent, "b" or "c"), under the
\* scheduled cleanup runs.
NextReconcile ==
    \/ \E ctxMsg \in {<<>>, <<"b">>, <<"c">>}, ts \in Timestamps :
         AdmitProbe("a1", "A", <<"a">>, ctxMsg, 0, ts, MaxReconcileIssues)
    \/ AdmitCreate("a1")
    \/ AdmitDone("a1")
    \/ CronRun(1)
    \/ RunApps(1)
    \/ RunScan(1)
    \/ RunMergeRead(1)
    \/ RunMergeUpdate(1)
    \/ RunMergeDelete(1)
    \/ RunApps2(1)
    \/ RunOldScan(1)
    \/ RunOldDelete(1)
    \/ RunImages(1)
    \/ RunImageScan(1)

SpecReconcile == InitEmbeddingOff /\ [][NextReconcile]_vars


\* the run leaves the pair at the head of its plan in this step: merged, or
\* skipped because the row to keep is not in the store
PairDone(c) ==
    /\ run[c].pc \in {"merge", "delete"}
    /\ run[c].plan # <<>>
    /\ run'[c].plan = Tail(run[c].plan)

NextExpiry ==
    \/ \E ts \in Timestamps :
         AdmitProbe("a1", "A", <<"a">>, <<>>, 0, ts, MaxExpiryIssues)
    \/ AdmitCreate("a1")
    \/ AdmitDone("a1")
    \/ \E id \in 1 .. MaxExpiryIssues, s \in {"closed", "open"} : LifeRead("l1", "A", id, s)
    \/ LifeWrite("l1")
    \/ LifeDone("l1")
    \/ CronRun(1)
    \/ RunApps(1)
    \/ RunScan(1)
    \/ RunMergeRead(1)
    \/ RunMergeUpdate(1)
    \/ RunMergeDelete(1)
    \/ RunApps2(1)
    \/ RunOldScan(1)
    \/ RunOldDelete(1)
    \/ RunImages(1)
    \/ RunImageScan(1)

SpecExpiry == InitEmbeddingOff /\ [][NextExpiry]_vars

\* C35: the age-based expiry deletes an issue only if the issue is closed and
\* older than the cutoff when it is deleted.
C35_ExpiryDeletesOnlyOldClosed ==
    [][\A c \in RunSlots :
         /\ run[c].pc = "olddelete" /\ run[c].old # <<>>
         /\ run'[c].old = Tail(run[c].old)
         /\ Head(run[c].old) \in Live
         => /\ logs[Head(run[c].old)].state = "closed"
            /\ logs[Head(run[c].old)].timestamp < run[c].cutoff]_vars

\* ------------------------------------------------------------------ C36
\* the provider call for the issue that tick t is processing fails in this
\* step
ProviderFails(t) == tick[t].pc = "embed" /\ tick'[t].pc = "fallback"

\* tick t handles the failure of the issue it is processing in this step
HandlesFailure(t) == tick[t].pc = "fallback" /\ tick'[t].pc # "fallback"

TickFetchFail(t) ==
    /\ tick[t].pc = "fetch"
    /\ tick' = [tick EXCEPT ![t].pc = "next", ![t].batch = <<>>]
    /\ UNCHANGED <<config, logs, nextId, duplicates, adm, life, isRunning,
                   processingQueue, force, cleanupRunning, run, forceCleanup, hist,
                   imageVars, blacklistVars, exited>>

\* A store call of a cleanup run throws. getApplicationsWithLogs catches and
\* returns [] (in cleanupOrphanedImages every listed file is then taken for
\* an orphan); removeDuplicatesForApplication catches and the loop goes to the
\* next application; mergeDuplicateLog catches and the loop goes to the next
\* pair; removeOldLogs and cleanupOrphanedImages catch and return.
RunFail(c) ==
    /\ run[c].pc # "idle"
    /\ CASE run[c].pc = "apps" ->
              /\ run' = [run EXCEPT ![c].pc = "scan", ![c].apps = <<>>]
              /\ UNCHANGED <<images, cleanupRunning>>
         [] run[c].pc = "scan" ->
              /\ run[c].apps # <<>>
              /\ run' = [run EXCEPT ![c].apps = Tail(run[c].apps)]
              /\ UNCHANGED <<images, cleanupRunning>>
         [] run[c].pc \in {"merge", "update", "delete"} ->
              /\ run[c].plan # <<>>
              /\ run' = [run EXCEPT ![c].pc = "merge", ![c].plan = Tail(run[c].plan),
                                    ![c].keepCtx = <<>>, ![c].keepShots = {}]
              /\ UNCHANGED <<images, cleanupRunning>>
         [] run[c].pc = "apps2" ->
              /\ run' = [run EXCEPT ![c].pc = "oldscan", ![c].apps = <<>>]
              /\ UNCHANGED <<images, cleanupRunning>>
         [] run[c].pc \in {"oldscan", "olddelete"} ->
              /\ run[c].pc = "oldscan" => run[c].apps # <<>>
              /\ run[c].pc = "olddelete" => run[c].old # <<>>
              /\ run' = [run EXCEPT ![c].pc = "images", ![c].apps = <<>>, ![c].old = <<>>,
                                    ![c].cutoff = 0, ![c].imageFiles = images]
              /\ UNCHANGED <<images, cleanupRunning>>
         [] run[c].pc = "images" ->
              /\ images' = RemoveOrphans(run[c].imageFiles, {})
              /\ RunEnd(c)
         [] OTHER ->
              /\ UNCHANGED images
              /\ RunEnd(c)
    /\ UNCHANGED <<config, logs, nextId, duplicates, adm, life, isRunning,
                   processingQueue, tick, force, forceCleanup, hist, nextFile,
                   blacklistVars, exited>>

\* One application's issues under admission and the timer and forced runs,
\* with store and provider calls that may fail. The two services share no
\* state but the store: with a provider key the worker is exercised, without
\* one the cleanup runs.
NextFlags ==
    \/ AdmitProbe("a1", "A", <<"a">>, <<>>, 0, 1, MaxFlagIssues)
    \/ AdmitCreate("a1")
    \/ AdmitDone("a1")
    \/ ForceBusy
    \/ ForceDone
    \/ Worker(1)
    \/ TickFetchFail(1)
    \/ ~config.apiKey /\ CleanupBusy
    \/ ~config.apiKey /\ CleanupDone
    \/ ~config.apiKey /\ Cleanup(1)
    \/ ~config.apiKey /\ RunFail(1)

SpecFlags == Init /\ [][NextFlags]_vars

\* C37: a running flag is set only while an activation is running: once a
\* worker tick or a cleanup run has ended, by its last step or by a failing
\* one, its flag is clear, and a forced trigger is refused as busy only while
\* an activation is running.
C37_FlagClearedAtEnd ==
    /\ [](isRunning => ActiveTicks # {})
    /\ [](cleanupRunning => ActiveRuns # {})
    /\ [][/\ force = 0 /\ force' = 409 => ActiveTicks # {}
          /\ forceCleanup = 0 /\ forceCleanup' = 409 => ActiveRuns # {}]_vars

\* a forced cleanup run that merged two issues has ended and its flag is
\* clear, or a forced tick has been accepted after a tick with a failure
C37_Witness ==
    \/ /\ ActiveRuns = {} /\ ~cleanupRunning /\ forceCleanup = 200
       /\ Cardinality(Live) = 1 /\ nextId = 3
    \/ /\ tick[1].pc = "fetch" /\ tick[1].errors = 0 /\ force = 200
       /\ \E i \in Live : hist[i].left = "fallback"

\* ------------------------------------------------------------------ C38
\* updateLogState when the UPDATE of its case throws: the repository rethrows,
\* updateLogState rethrows, and the route answers 500; no row is written
LifeWriteFail(l) ==
    /\ life[l].pc = "read"
    /\ life[l].logState # "not_found"
    /\ TransitionAllowed(life[l].logState, life[l].newState)
    /\ life' = [life EXCEPT ![l].pc = "responded", ![l].status = 500]
    /\ UNCHANGED <<config, logs, nextId, duplicates, adm, isRunning, processingQueue,
                   tick, force, cleanupRunning, run, forceCleanup, hist, imageVars,
                   blacklistVars, exited>>

\* Admissions with and without an image, and in_progress and close requests
\* for known and unknown ids and for another application, whose UPDATE may
\* fail; the embedding feature is off.
NextWriteFail ==
    \/ \E n \in 0 .. 1 : AdmitProbe("a1", "A", <<"a">>, <<>>, n, 1, MaxWriteFailIssues)
    \/ AdmitCreate("a1")
    \/ AdmitDone("a1")
    \/ \E app \in Apps, id \in 1 .. MaxWriteFailIssues + 1,
          newState \in {"in_progress", "closed"} : LifeRead("l1", app, id, newState)
    \/ LifeWrite("l1")
    \/ LifeWriteFail("l1")
    \/ LifeDone("l1")

SpecWriteFail == InitEmbeddingOff /\ [][NextWriteFail]_vars

\* l answers in this step with a rejection or a failure
Refuses(l) ==
    /\ life[l].pc = "read" /\ life'[l].pc = "responded"
    /\ life'[l].status # 200

\* C38: a lifecycle request that is rejected or whose write fails leaves
\* every row as it was, and the screenshot files of the issue it named are
\* still in the image directory.
C38_RefusedLeavesRowAndFiles ==
    /\ [][\A l \in LifeSlots : Refuses(l) => logs' = logs /\ images' = images]_vars
    /\ [](\A l \in LifeSlots :
            /\ life[l].pc = "responded" /\ life[l].status # 200
            /\ life[l].id \in Live /\ logs[life[l].id].state # "closed"
            => logs[life[l].id].screenshots \subseteq images)

\* ------------------------------------------------------------------ C39
\* the blacklist check, made now, raises an error while it rebuilds the cache
CheckThrows(expired) == blconf.enabled /\ ensureCacheValid(expired).thrown

\* C39: when the blacklist check raises an error, its result is "not
\* blacklisted" for every message and application, and an admission that
\* makes the check in this step goes on to its duplicate probe instead of
\* being blocked.
C39_CheckErrorLetsThrough ==
    /\ [](\A expired \in BOOLEAN, message \in Messages, app \in Apps :
            CheckThrows(expired) => ~isBlacklisted(message, app, expired).isBlacklisted)
    /\ [][\A p \in AdmitSlots :
            /\ adm[p].pc = "idle" /\ adm'[p].pc # "idle" /\ adm'[p].msg # NoMessage
            /\ \A expired \in BOOLEAN : CheckThrows(expired)
            => adm'[p].pc = "probed" /\ adm'[p].action # "blocked"]_vars

\* an admission is past the blacklist check, which raised an error, with a
\* message that a stored pattern of its application matches
C39_Witness ==
    \E p \in AdmitSlots :
        /\ adm[p].pc = "probed"
        /\ \A expired \in BOOLEAN : CheckThrows(expired)
        /\ \E e \in blacklist :
              /\ e.app \in {NoApp, adm[p].app}
              /\ matchesPattern(adm[p].msg, e.pattern, e.patternType)

\* ------------------------------------------------------------------ C40
\* The SIGINT and SIGTERM handlers: cleanupService.stop() and
\* backgroundProcessor.stop() destroy the cron jobs, databaseManager.close()
\* is called, and process.exit(0) ends the process in the same synchronous
\* run, whatever the worker and the cleanup run are doing.
Shutdown ==
    /\ ~exited
    /\ exited' = TRUE
    /\ UNCHANGED <<config, logs, nextId, duplicates, adm, life, isRunning,
                   processingQueue, tick, force, cleanupRunning, run, forceCleanup, hist,
                   imageVars, blacklistVars>>

\* The process of SpecStore, until a signal ends it.
NextShutdown ==
    \/ ~exited /\ NextStore
    \/ Shutdown

SpecShutdown == InitKey /\ [][NextShutdown]_vars

\* C40: the process has exited only with no embedding batch and no cleanup
\* run in flight.
C40_ExitWaitsForWork ==
    exited => ActiveTicks = {} /\ ActiveRuns = {}

====
